---- MODULE Spec2Model ----
(***************************************************************************)
(* nodash backend: the note store (table "notes"), its FTS5 shadow index   *)
(* "notes_fts" with the three sync triggers, and the Db operations built   *)
(* on them (createNote, getNoteById, updateNote, deleteNote, getNotes,     *)
(* searchNotes) as served by the /api/notes routes.                        *)
(*                                                                         *)
(* Two revisions of class Db are in the sources and both are modelled:     *)
(*   "datenow"   - db/db.ts: integer timestamps taken from Date.now()      *)
(*   "returning" - db/d1.ts:547-783: text timestamps from column defaults  *)
(*                 and current_timestamp, statements with RETURNING *      *)
(* The SQL is interpreted as SQLite executes it (checked against SQLite    *)
(* 3.40.1 with FTS5): notes_fts is an external-content table, so the plain *)
(* UPDATE / DELETE issued by the triggers read the content row as it is    *)
(* after the change.                                                       *)
(***************************************************************************)
EXTENDS Integers, Sequences, FiniteSets, TLC

VARIABLES rev, clock, notes, fts, ftsTotal, nextId, last, created, deleted,
          txn, handle, call, schema, client

vars == <<rev, clock, notes, fts, ftsTotal, nextId, last, created, deleted,
          txn, handle, call, schema, client>>

\* the transaction in progress, the store handles of the entry point, the
\* Db call that is between two of its statements, the schema objects of the
\* database and the web client
aux == <<txn, handle, call, schema, client>>

store == <<notes, fts, ftsTotal>>

\* ------------------------------------------------------------------ bounds
MaxNotes == 2
MaxClock == 1
\* the largest number of Db calls a transaction function makes
MaxTxnLen == 2
\* the requests an entry point serves
MaxRequests == 2
\* requests of one kind the web client has in flight at a time
MaxInFlight == 2

\* ------------------------------------------------------- program constants
ListDefaultLimit == 100
SearchDefaultLimit == 50
\* the validators' limits: title length, limit of a list, limit of a search
MaxTitleLen == 255
ListMaxLimit == 1000
SearchMaxLimit == 100

\* ------------------------------------------------------------------ inputs
Titles == { <<"a">>, <<"A", "b">> }
Contents == { <<>>, <<"b">> }
Queries == { <<"A">>, <<"b">>, <<"a", " ", "b">>, <<" ">> }
Ids == 1..MaxNotes

\* -------------------------------------------------------------------- text
\* unicode61 tokenizer of FTS5: case folding
Lower(c) == IF c = "A" THEN "a" ELSE IF c = "B" THEN "b" ELSE c

ToLower(s) == [i \in 1..Len(s) |-> Lower(s[i])]

\* unicode61 tokenizer of FTS5: letters and digits form tokens, the rest separates
IsTokenChar(c) == c # " "

TokenStarts(s) ==
    { i \in 1..Len(s) : IsTokenChar(s[i]) /\ (i = 1 \/ ~IsTokenChar(s[i-1])) }

TokenEnd(s, i) ==
    CHOOSE j \in i..Len(s) :
        /\ \A k \in i..j : IsTokenChar(s[k])
        /\ (j = Len(s) \/ ~IsTokenChar(s[j+1]))

\* Tokenize without case folding
Tokenize_CaseSensitive(s) == { SubSeq(s, i, TokenEnd(s, i)) : i \in TokenStarts(s) }

\* the set of (folded) tokens of a text
Tokenize(s) == { ToLower(SubSeq(s, i, TokenEnd(s, i))) : i \in TokenStarts(s) }

\* the texts that occur as a title, a content or a query
Texts == Titles \cup Contents \cup Queries

\* Tokenize and the number of token instances (the column size FTS5 records),
\* tabulated over the texts
TokenTable == [s \in Texts |-> Tokenize(s)]

CountTable == [s \in Texts |-> Cardinality(TokenStarts(s))]

Tokens(s) == TokenTable[s]

TokenCount(s) == CountTable[s]

\* q occurs in s as a substring, compared ignoring letter case
ContainsIgnoreCase(s, q) ==
    \E i \in 1..(Len(s) - Len(q) + 1) :
        ToLower(SubSeq(s, i, i + Len(q) - 1)) = ToLower(q)

\* -------------------------------------------------------------- timestamps
\* a timestamp cell of a row: an integer (ms), a 'YYYY-MM-DD HH:MM:SS' text
\* (whole seconds), or the text 'current_datetime'
IntCell(ms) == [k |-> "int", v |-> ms]
TextCell(sec) == [k |-> "text", v |-> sec]
LiteralCell == [k |-> "lit", v |-> 0]

\* The clock is counted in the unit the revision stores: milliseconds for
\* Date.now(), whole seconds for current_timestamp.
\* Date.now()
DateNow == clock

\* SQLite current_timestamp: UTC date and time in whole seconds
CurrentTimestamp == TextCell(clock)

\* the default of created_at / updated_at in the "returning" schema:
\* current_datetime is no SQLite keyword, a bare identifier after DEFAULT
\* is taken as the string 'current_datetime'
ColumnDefault == LiteralCell

\* new Date(cell): a number is the time value, a date-time text is parsed
\* (to whole seconds), any other text gives an Invalid Date
NewDate(cell) ==
    CASE cell.k = "int" -> [valid |-> TRUE, ms |-> cell.v]
      [] cell.k = "text" -> [valid |-> TRUE, ms |-> cell.v * 1000]
      [] OTHER -> [valid |-> FALSE, ms |-> 0]

\* a Date in a JSON response body: Date.prototype.toJSON gives the ISO string
\* of a valid date and null for an Invalid Date
DateToJSON(d) == IF d.valid THEN <<"iso", d.ms>> ELSE <<"null">>

\* a <= b on Dates (operands converted with valueOf; NaN compares false)
DateLE(a, b) == a.valid /\ b.valid /\ a.ms <= b.ms

DateLT(a, b) == a.valid /\ b.valid /\ a.ms < b.ms

\* ------------------------------------------------------------------- store
mapRowToNote(row) ==
    [id |-> row.id, title |-> row.title, content |-> row.content,
     createdAt |-> NewDate(row.created_at), updatedAt |-> NewDate(row.updated_at),
     archived |-> (row.archived = 1)]

\* rowid given to an inserted row: one more than the largest rowid in the table
NewRowid == IF DOMAIN notes = {} THEN 1
            ELSE 1 + (CHOOSE r \in { notes[i].rowid : i \in DOMAIN notes } :
                         \A i \in DOMAIN notes : notes[i].rowid <= r)

RowIds == 1..MaxNotes

\* trigger notes_fts_insert: the tokens of the new row are added under its
\* rowid and the column totals grow by the row's column sizes
FtsInsert(f, row) ==
    [f EXCEPT ![row.rowid] = @ \cup Tokens(row.title) \cup Tokens(row.content)]

FtsTotalInsert(t, row) ==
    [title |-> t.title + TokenCount(row.title),
     content |-> t.content + TokenCount(row.content)]

\* trigger notes_fts_update: "update notes_fts ... where rowid = new.rowid".
\* FTS5 first removes the entry it reads back from the content table, which
\* already holds the new values, then inserts the new values: tokens of the
\* previous values stay in the index.  The removal fails (SQLITE_CORRUPT_VTAB)
\* when a column of the row has more tokens than the index total of the column.
FtsUpdateFails(t, row) ==
    \/ TokenCount(row.title) > t.title
    \/ TokenCount(row.content) > t.content

\* FtsUpdate that keeps entries for rows that are not archived only
FtsUpdate_DropsArchived(f, row) ==
    IF row.archived = 1 THEN [f EXCEPT ![row.rowid] = {}]
    ELSE [f EXCEPT ![row.rowid] = @ \cup Tokens(row.title) \cup Tokens(row.content)]

FtsUpdate(f, row) ==
    [f EXCEPT ![row.rowid] = @ \cup Tokens(row.title) \cup Tokens(row.content)]

\* trigger notes_fts_delete: "delete from notes_fts where rowid = old.rowid"
\* finds no content row any more and removes nothing
FtsDelete(f, row) == f

\* notes_fts match ?: every bareword of the query is a token of the entry
FtsMatch(f, rowid, q) == Tokens(q) \subseteq f[rowid]

\* a query without any bareword is an FTS5 syntax error
FtsSyntaxError(q) == Tokens(q) = {}

\* ---------------------------------------------------------------- requests
\* the body of a response that carries no error
NoError == [kind |-> "none"]

\* the body the routes send with status 404
NotFound(id) ==
    [error |-> "NotFound", message |-> <<"Note with id '", id, "' not found">>,
     statusCode |-> 404]

\* the body zValidator sends with status 400 when no hook is given: the
\* result of safeParse, {success: false, error: <the ZodError>}
ValidationFailure == [success |-> FALSE, error |-> "ZodError"]

\* an error thrown by the store reaches the default error handler of Hono
\* (the app installs no onError): the text "Internal Server Error"
InternalServerError == [text |-> "Internal Server Error"]

\* the body that goes with a status
ErrorBody(id, status) ==
    CASE status = 404 -> NotFound(id)
      [] status = 400 -> ValidationFailure
      [] status = 500 -> InternalServerError
      [] OTHER -> NoError

NoResponse ==
    [op |-> "none", id |-> 0, status |-> 0, note |-> <<>>, data |-> <<>>,
     total |-> 0, req |-> <<>>, error |-> NoError]

Response(op, id, status, note, data, total, req) ==
    [op |-> op, id |-> id, status |-> status, note |-> note, data |-> data,
     total |-> total, req |-> req, error |-> ErrorBody(id, status)]

\* no transaction was started
NoTransaction == [phase |-> "idle", rest |-> <<>>, throws |-> FALSE, wrote |-> FALSE,
                  before |-> <<>>]

\* no entry point has started
NoEntryPoint == [entry |-> "none", open |-> 0, served |-> 0, closes |-> 0,
                 usedClosed |-> FALSE]

\* no Db call is between two statements
NoCall == [op |-> "none"]

\* what initSchema creates: the table, its indexes, the index table and the
\* triggers
SchemaObjects ==
    {"notes", "idx_notes_title", "idx_notes_archived", "idx_notes_updated_at",
     "notes_fts", "notes_fts_insert", "notes_fts_update", "notes_fts_delete"}

\* the page has not been opened
NoClient == [open |-> FALSE]

\* "/" and "/?view=archived"
Views == {"active", "archived"}

\* HomeContent when the page is opened at the list URL of a view: the state
\* of its hooks, the timer and the requests it has in flight. typed,
\* saveFailed, fetchFailed, done and pushed record what happened (the values
\* last typed per note, a failed auto-save, a failed fetch, the delete or
\* archive request answered last, the last router.push)
Mounted(view) ==
    [open |-> TRUE, view |-> view, noteId |-> 0, notes |-> <<>>,
     searchQuery |-> <<>>, debounced |-> <<>>, isLoading |-> TRUE,
     isSaving |-> FALSE, timer |-> <<>>, puts |-> <<>>, fetches |-> <<>>,
     acts |-> <<>>,
     typed |-> [i \in 1..MaxNotes |-> [title |-> <<>>, content |-> <<>>]],
     saveFailed |-> FALSE, fetchFailed |-> FALSE,
     done |-> [kind |-> "none"], pushed |-> "none"]

Init ==
    /\ rev \in {"datenow", "returning"}
    /\ clock = 0
    /\ notes = << >>
    /\ fts = [r \in RowIds |-> {}]
    /\ ftsTotal = [title |-> 0, content |-> 0]
    /\ nextId = 1
    /\ last = NoResponse
    /\ created = << >>
    /\ deleted = {}
    /\ txn = NoTransaction
    /\ handle = NoEntryPoint
    /\ call = NoCall
    /\ schema = SchemaObjects
    /\ client = NoClient

\* the wall clock advances
Tick ==
    /\ clock < MaxClock
    /\ clock' = clock + 1
    /\ UNCHANGED <<rev, notes, fts, ftsTotal, nextId, last, created, deleted>>
    /\ UNCHANGED aux

\* a row whose updated_at is stamped after its created_at
NewRow_StampsTwice(id, data) ==
    [id |-> id, rowid |-> NewRowid, title |-> data.title, content |-> data.content,
     created_at |-> IF rev = "datenow" THEN IntCell(DateNow) ELSE ColumnDefault,
     updated_at |-> IF rev = "datenow" THEN IntCell(DateNow + 1) ELSE CurrentTimestamp,
     archived |-> 0]

\* Db.createNote: the row that is inserted
NewRow(id, data) ==
    [id |-> id, rowid |-> NewRowid, title |-> data.title, content |-> data.content,
     created_at |-> IF rev = "datenow" THEN IntCell(DateNow) ELSE ColumnDefault,
     updated_at |-> IF rev = "datenow" THEN IntCell(DateNow) ELSE ColumnDefault,
     archived |-> 0]

\* createNote that gives the new note the lowest id no stored note has
createNote_ReusesId(data) ==
    /\ nextId <= MaxNotes
    /\ LET id == CHOOSE i \in 1..nextId : i \notin DOMAIN notes /\
                      \A j \in 1..nextId : j \notin DOMAIN notes => i <= j
           row == NewRow(id, data)
       IN /\ notes' = [i \in DOMAIN notes \cup {id} |-> IF i = id THEN row ELSE notes[i]]
          /\ fts' = FtsInsert(fts, row)
          /\ ftsTotal' = FtsTotalInsert(ftsTotal, row)
          /\ nextId' = nextId + 1
          /\ last' = Response("create", id, 201, <<mapRowToNote(row)>>, <<>>, 0, <<>>)
          /\ created' = [i \in DOMAIN created \cup {id} |->
                            IF i = id THEN [req |-> data, note |-> mapRowToNote(row)]
                            ELSE created[i]]
    /\ UNCHANGED <<rev, clock, deleted>>

\* POST /api/notes -> Db.createNote
createNote(data) ==
    /\ nextId <= MaxNotes
    /\ LET id == nextId
           row == NewRow(id, data)
       IN /\ notes' = [i \in DOMAIN notes \cup {id} |-> IF i = id THEN row ELSE notes[i]]
          /\ fts' = FtsInsert(fts, row)
          /\ ftsTotal' = FtsTotalInsert(ftsTotal, row)
          /\ nextId' = nextId + 1
          /\ last' = Response("create", id, 201, <<mapRowToNote(row)>>, <<>>, 0, <<>>)
          /\ created' = [i \in DOMAIN created \cup {id} |->
                            IF i = id THEN [req |-> data, note |-> mapRowToNote(row)]
                            ELSE created[i]]
    /\ UNCHANGED <<rev, clock, deleted>>

Create ==
    /\ \E t \in Titles, c \in Contents : createNote([title |-> t, content |-> c])
    /\ UNCHANGED aux

\* ----------------------------------------------------------------- updates
\* the bodies accepted by updateNoteSchema: any non-empty subset of the fields
\* each field alone with each of its values, and every combination of two or
\* three fields with one value per field
UpdateRequests ==
    { [title |-> x] : x \in Titles } \cup { [content |-> x] : x \in Contents }
    \cup { [archived |-> x] : x \in BOOLEAN }
    \cup { [title |-> <<"A", "b">>, content |-> <<"b">>],
           [title |-> <<"a">>, archived |-> TRUE],
           [content |-> << >>, archived |-> FALSE],
           [title |-> <<"A", "b">>, content |-> <<"b">>, archived |-> TRUE] }

\* data.f !== undefined
Has(data, f) == f \in DOMAIN data

\* UpdatedRow that writes archived also when data does not name it
UpdatedRow_ResetsArchived(row, data) ==
    [row EXCEPT
        !.title = IF Has(data, "title") THEN data.title ELSE @,
        !.content = IF Has(data, "content") THEN data.content ELSE @,
        !.archived = IF Has(data, "archived") /\ data.archived THEN 1 ELSE 0,
        !.updated_at = IF rev = "datenow" THEN IntCell(DateNow) ELSE CurrentTimestamp]

\* UpdatedRow that leaves updated_at alone
UpdatedRow_KeepsUpdatedAt(row, data) ==
    [row EXCEPT
        !.title = IF Has(data, "title") THEN data.title ELSE @,
        !.content = IF Has(data, "content") THEN data.content ELSE @,
        !.archived = IF Has(data, "archived") THEN (IF data.archived THEN 1 ELSE 0) ELSE @]

\* UpdatedRow that tests data.archived for truth instead of !== undefined:
\* archived: false is not written
UpdatedRow_FalsyArchived(row, data) ==
    [row EXCEPT
        !.title = IF Has(data, "title") THEN data.title ELSE @,
        !.content = IF Has(data, "content") THEN data.content ELSE @,
        !.archived = IF Has(data, "archived") /\ data.archived THEN 1 ELSE @,
        !.updated_at = IF rev = "datenow" THEN IntCell(DateNow) ELSE CurrentTimestamp]

\* the row after "update notes set ... where id = ?"
UpdatedRow(row, data) ==
    [row EXCEPT
        !.title = IF Has(data, "title") THEN data.title ELSE @,
        !.content = IF Has(data, "content") THEN data.content ELSE @,
        !.archived = IF Has(data, "archived") THEN (IF data.archived THEN 1 ELSE 0) ELSE @,
        !.updated_at = IF rev = "datenow" THEN IntCell(DateNow) ELSE CurrentTimestamp]

\* PUT /api/notes/:id -> Db.updateNote
updateNote(id, data) ==
    IF id \notin DOMAIN notes
    THEN /\ last' = Response("update", id, 404, <<>>, <<>>, 0, <<>>)
         /\ UNCHANGED <<rev, clock, notes, fts, ftsTotal, nextId, created, deleted>>
    ELSE LET row == UpdatedRow(notes[id], data)
         IN IF FtsUpdateFails(ftsTotal, row)
            THEN /\ last' = Response("update", id, 500, <<>>, <<>>, 0, <<>>)
                 /\ UNCHANGED <<rev, clock, notes, fts, ftsTotal, nextId, created, deleted>>
            ELSE /\ notes' = [notes EXCEPT ![id] = row]
                 /\ fts' = FtsUpdate(fts, row)
                 /\ last' = Response("update", id, 200, <<mapRowToNote(row)>>, <<>>, 0, <<>>)
                 /\ created' = [i \in DOMAIN created \ {id} |-> created[i]]
                 /\ UNCHANGED <<rev, clock, ftsTotal, nextId, deleted>>

Update ==
    /\ \E id \in Ids, data \in UpdateRequests : updateNote(id, data)
    /\ UNCHANGED aux

\* deleteNote that archives the note instead of removing the row
deleteNote_Soft(id) ==
    IF id \notin DOMAIN notes
    THEN /\ last' = Response("delete", id, 404, <<>>, <<>>, 0, <<>>)
         /\ UNCHANGED <<rev, clock, notes, fts, ftsTotal, nextId, created, deleted>>
    ELSE /\ notes' = [notes EXCEPT ![id].archived = 1]
         /\ fts' = fts
         /\ last' = Response("delete", id, 204, <<>>, <<>>, 0, <<>>)
         /\ created' = [i \in DOMAIN created \ {id} |-> created[i]]
         /\ deleted' = deleted \cup {id}
         /\ UNCHANGED <<rev, clock, ftsTotal, nextId>>

\* deleteNote that reports success whether or not a row was deleted
deleteNote_AlwaysSucceeds(id) ==
    /\ notes' = [i \in DOMAIN notes \ {id} |-> notes[i]]
    /\ fts' = fts
    /\ last' = Response("delete", id, 204, <<>>, <<>>, 0, <<>>)
    /\ created' = [i \in DOMAIN created \ {id} |-> created[i]]
    /\ deleted' = deleted \cup {id}
    /\ UNCHANGED <<rev, clock, ftsTotal, nextId>>

\* DELETE /api/notes/:id -> Db.deleteNote
deleteNote(id) ==
    IF id \notin DOMAIN notes
    THEN /\ last' = Response("delete", id, 404, <<>>, <<>>, 0, <<>>)
         /\ UNCHANGED <<rev, clock, notes, fts, ftsTotal, nextId, created, deleted>>
    ELSE /\ notes' = [i \in DOMAIN notes \ {id} |-> notes[i]]
         /\ fts' = FtsDelete(fts, notes[id])
         /\ last' = Response("delete", id, 204, <<>>, <<>>, 0, <<>>)
         /\ created' = [i \in DOMAIN created \ {id} |-> created[i]]
         /\ deleted' = deleted \cup {id}
         /\ UNCHANGED <<rev, clock, ftsTotal, nextId>>

Delete ==
    /\ \E id \in Ids : deleteNote(id)
    /\ UNCHANGED aux

\* ------------------------------------------------------------------- reads
\* getNoteById without the condition on the id
getNoteById_AnyRow(id) ==
    IF DOMAIN notes = {} THEN <<>>
    ELSE <<mapRowToNote(notes[CHOOSE i \in DOMAIN notes : \A j \in DOMAIN notes : i <= j])>>

\* Db.getNoteById: the note as a sequence of length 0 (null) or 1
getNoteById(id) == IF id \in DOMAIN notes THEN <<mapRowToNote(notes[id])>> ELSE <<>>

\* GET /api/notes/:id
Get ==
    \E id \in Ids :
        /\ last' = Response("get", id, IF getNoteById(id) = <<>> THEN 404 ELSE 200,
                            getNoteById(id), <<>>, 0, <<>>)
        /\ UNCHANGED <<rev, clock, notes, fts, ftsTotal, nextId, created, deleted>>
        /\ UNCHANGED aux

Min(a, b) == IF a < b THEN a ELSE b

\* a page that starts at the first row whatever the offset
Page_IgnoresOffset(rows, limit, offset) == SubSeq(rows, 1, Min(Len(rows), limit))

\* limit ? offset ?
Page(rows, limit, offset) == SubSeq(rows, offset + 1, Min(Len(rows), offset + limit))

\* the arrangements of a set of ids as a sequence
Arrangements(S) ==
    { s \in [1..Cardinality(S) -> S] : \A i, j \in 1..Cardinality(S) : i # j => s[i] # s[j] }

\* BINARY collation of text values
CharCode(c) ==
    CASE c = " " -> 32 [] c = "A" -> 65 [] c = "B" -> 66 [] c = "a" -> 97 [] c = "b" -> 98

TextLT(s, t) ==
    \E i \in 1..(Len(t)) :
        /\ \A k \in 1..(i-1) : k <= Len(s) /\ s[k] = t[k]
        /\ (i > Len(s) \/ (i <= Len(s) /\ CharCode(s[i]) < CharCode(t[i])))
        /\ i - 1 <= Len(s)

\* order of timestamp cells: integers by value; date-time texts by value and
\* before the text 'current_datetime' (a digit sorts before the letter c)
CellLT(a, b) ==
    CASE a.k = "int" /\ b.k = "int" -> a.v < b.v
      [] a.k = "text" /\ b.k = "text" -> a.v < b.v
      [] a.k = "text" /\ b.k = "lit" -> TRUE
      [] OTHER -> FALSE

\* sortBy.replace(/[A-Z]/g, letter => `_${letter.toLowerCase()}`)
DbSortBy(sortBy) ==
    CASE sortBy = "createdAt" -> "created_at"
      [] sortBy = "updatedAt" -> "updated_at"
      [] OTHER -> sortBy

\* row a sorts strictly before row b under "order by col asc"
ColumnLT(col, a, b) ==
    CASE col = "title" -> TextLT(a.title, b.title)
      [] col = "created_at" -> CellLT(a.created_at, b.created_at)
      [] col = "updated_at" -> CellLT(a.updated_at, b.updated_at)

\* the sequences "order by col dir" may return (rows with equal keys in any order)
Ordered(S, col, dir) ==
    { s \in Arrangements(S) :
        \A i, j \in 1..Len(s) : i < j =>
            IF dir = "asc" THEN ~ColumnLT(col, notes[s[j]], notes[s[i]])
            ELSE ~ColumnLT(col, notes[s[i]], notes[s[j]]) }

\* the query strings of GET /api/notes and GET /api/notes/search; limit 0
\* stands for a request without limit
ArchivedParams == {"omitted", "true", "false"}
PageParams == { [limit |-> 0, offset |-> 0], [limit |-> 1, offset |-> 1] }
SortParams == { [sortBy |-> "omitted", sortOrder |-> "omitted"],
                [sortBy |-> "title", sortOrder |-> "asc"] }

\* the archived parameter coerced to a boolean: every non-empty string is true
ArchivedOption_Coerced(p) == p # "omitted"

\* listNotesQuerySchema.archived: transform(v => v === 'true'), default false
ArchivedOption(p) == p = "true"

\* Db.getNotes
getNotes(archived, limit, offset, sortBy, sortOrder, req) ==
    LET archivedVal == IF archived THEN 1 ELSE 0
        hits == { i \in DOMAIN notes : notes[i].archived = archivedVal }
    IN \E s \in Ordered(hits, DbSortBy(sortBy), sortOrder) :
          last' = Response("list", 0, 200, <<>>,
                           [k \in 1..Len(Page(s, limit, offset)) |->
                               mapRowToNote(notes[Page(s, limit, offset)[k]])],
                           Cardinality(hits), req)

\* GET /api/notes
List ==
    \E a \in ArchivedParams, p \in PageParams, so \in SortParams :
        /\ getNotes(ArchivedOption(a),
                    IF p.limit = 0 THEN ListDefaultLimit ELSE p.limit,
                    p.offset,
                    IF so.sortBy = "omitted" THEN "updated_at" ELSE so.sortBy,
                    IF so.sortOrder = "omitted" THEN "desc" ELSE so.sortOrder,
                    [archived |-> a, limit |-> p.limit, offset |-> p.offset,
                     sortBy |-> so.sortBy, sortOrder |-> so.sortOrder])
        /\ UNCHANGED <<rev, clock, notes, fts, ftsTotal, nextId, created, deleted>>
        /\ UNCHANGED aux

\* searchNotes without the condition n.archived = 0
searchNotes_WithArchived(query, limit, offset, req) ==
    IF FtsSyntaxError(query)
    THEN last' = Response("search", 0, 500, <<>>, <<>>, 0, req)
    ELSE LET hits == { i \in DOMAIN notes : FtsMatch(fts, notes[i].rowid, query) }
         IN \E s \in Arrangements(hits) :
               last' = Response("search", 0, 200, <<>>,
                                [k \in 1..Len(Page(s, limit, offset)) |->
                                    mapRowToNote(notes[Page(s, limit, offset)[k]])],
                                Cardinality(hits), req)

\* Db.searchNotes
searchNotes(query, limit, offset, req) ==
    IF FtsSyntaxError(query)
    THEN last' = Response("search", 0, 500, <<>>, <<>>, 0, req)
    ELSE LET hits == { i \in DOMAIN notes :
                         FtsMatch(fts, notes[i].rowid, query) /\ notes[i].archived = 0 }
         IN \E s \in Arrangements(hits) :
               last' = Response("search", 0, 200, <<>>,
                                [k \in 1..Len(Page(s, limit, offset)) |->
                                    mapRowToNote(notes[Page(s, limit, offset)[k]])],
                                Cardinality(hits), req)

\* GET /api/notes/search
Search ==
    \E q \in Queries, p \in PageParams :
        /\ searchNotes(q, IF p.limit = 0 THEN SearchDefaultLimit ELSE p.limit, p.offset,
                       [q |-> q, limit |-> p.limit, offset |-> p.offset])
        /\ UNCHANGED <<rev, clock, notes, fts, ftsTotal, nextId, created, deleted>>
        /\ UNCHANGED aux

\* ------------------------------------------------- routes with validators
\* a title of one character more than the schema allows
LongTitle == [i \in 1..(MaxTitleLen + 1) |-> "a"]

\* a path parameter that is not a UUID
BadId == 0

RequestIds == Ids \cup {BadId}

\* JSON bodies of POST /api/notes: the valid ones, and bodies without title,
\* without content, with an empty title, with a title that is too long
CreateBodies ==
    { [title |-> t, content |-> c] : t \in Titles, c \in Contents }
    \cup { [content |-> <<"b">>], [title |-> <<"a">>],
           [title |-> << >>, content |-> <<"b">>],
           [title |-> LongTitle, content |-> << >>] }

\* createNoteSchema without min(1) on the title
createNoteSchema_AllowsEmptyTitle(body) ==
    /\ Has(body, "title") /\ Len(body.title) <= MaxTitleLen
    /\ Has(body, "content")

createNoteSchema(body) ==
    /\ Has(body, "title") /\ Len(body.title) >= 1 /\ Len(body.title) <= MaxTitleLen
    /\ Has(body, "content")

\* JSON bodies of PUT /api/notes/:id: the valid ones, the empty object, and
\* bodies with an empty title or a title that is too long
UpdateBodies ==
    UpdateRequests
    \cup { [f \in {} |-> TRUE], [title |-> << >>],
           [title |-> LongTitle, archived |-> TRUE] }

updateNoteSchema(body) ==
    /\ Has(body, "title") => (Len(body.title) >= 1 /\ Len(body.title) <= MaxTitleLen)
    /\ Has(body, "title") \/ Has(body, "content") \/ Has(body, "archived")

noteIdSchema(id) == id \in Ids

\* z.coerce.number().int().min(1).max(max).default(..).optional(); 0 stands
\* for a request without limit
LimitSchema(limit, max) == limit = 0 \/ (limit >= 1 /\ limit <= max)

\* z.coerce.number().int().min(0)
OffsetSchema(offset) == offset >= 0

\* query strings of GET /api/notes: valid ones (each value of archived with
\* the other parameters omitted, and one with every parameter given), and
\* ones with a limit below or above the range, a negative offset, an unknown
\* sort column or order
ListRequests ==
    { [archived |-> a, limit |-> 0, offset |-> 0,
       sortBy |-> "omitted", sortOrder |-> "omitted"] : a \in ArchivedParams }
    \cup { [archived |-> "false", limit |-> 1, offset |-> 1,
            sortBy |-> "title", sortOrder |-> "asc"] }
    \cup { [archived |-> "omitted", limit |-> l, offset |-> 0,
            sortBy |-> "omitted", sortOrder |-> "omitted"] : l \in {-1, ListMaxLimit + 1} }
    \cup { [archived |-> "omitted", limit |-> 0, offset |-> -1,
            sortBy |-> "omitted", sortOrder |-> "omitted"],
           [archived |-> "true", limit |-> 0, offset |-> 0,
            sortBy |-> "id", sortOrder |-> "omitted"],
           [archived |-> "omitted", limit |-> 0, offset |-> 0,
            sortBy |-> "title", sortOrder |-> "up"] }

listNotesQuerySchema(query) ==
    /\ LimitSchema(query.limit, ListMaxLimit)
    /\ OffsetSchema(query.offset)
    /\ query.sortBy \in {"omitted", "createdAt", "updatedAt", "title"}
    /\ query.sortOrder \in {"omitted", "asc", "desc"}

\* query strings of GET /api/notes/search: valid ones (each query without
\* limit and offset, and one with both given), and ones without q, with an
\* empty q, with a limit outside the range, with a negative offset
SearchRequests ==
    { [q |-> q, limit |-> 0, offset |-> 0] : q \in Queries }
    \cup { [q |-> <<"b">>, limit |-> 1, offset |-> 1] }
    \cup { [limit |-> 0, offset |-> 0], [q |-> << >>, limit |-> 0, offset |-> 0],
           [q |-> <<"b">>, limit |-> -1, offset |-> 0],
           [q |-> <<"b">>, limit |-> SearchMaxLimit + 1, offset |-> 0],
           [q |-> <<"b">>, limit |-> 0, offset |-> -1] }

searchQuerySchema(query) ==
    /\ Has(query, "q") /\ Len(query.q) >= 1
    /\ LimitSchema(query.limit, SearchMaxLimit)
    /\ OffsetSchema(query.offset)

\* zValidator answers 400 and the handler does not run
Rejected(op) ==
    /\ last' = Response(op, 0, 400, <<>>, <<>>, 0, <<>>)
    /\ UNCHANGED <<rev, clock, notes, fts, ftsTotal, nextId, created, deleted>>

\* notes.post('/', zValidator('json', createNoteSchema), ...)
RoutePost(body) ==
    IF createNoteSchema(body) THEN createNote(body) ELSE Rejected("create")

ApiPost ==
    /\ \E body \in CreateBodies : RoutePost(body)
    /\ UNCHANGED aux

\* notes.put('/:id', zValidator('param', noteIdSchema),
\*           zValidator('json', updateNoteSchema), ...)
RoutePut(id, body) ==
    IF noteIdSchema(id) /\ updateNoteSchema(body) THEN updateNote(id, body)
    ELSE Rejected("update")

ApiPut ==
    /\ \E id \in RequestIds, body \in UpdateBodies : RoutePut(id, body)
    /\ UNCHANGED aux

\* notes.delete('/:id', zValidator('param', noteIdSchema), ...)
RouteDelete(id) ==
    IF noteIdSchema(id) THEN deleteNote(id) ELSE Rejected("delete")

ApiDelete ==
    /\ \E id \in RequestIds : RouteDelete(id)
    /\ UNCHANGED aux

\* notes.get('/:id', zValidator('param', noteIdSchema), ...)
RouteGet(id) ==
    IF noteIdSchema(id)
    THEN /\ last' = Response("get", id, IF getNoteById(id) = <<>> THEN 404 ELSE 200,
                             getNoteById(id), <<>>, 0, <<>>)
         /\ UNCHANGED <<rev, clock, notes, fts, ftsTotal, nextId, created, deleted>>
    ELSE Rejected("get")

ApiGet ==
    /\ \E id \in RequestIds : RouteGet(id)
    /\ UNCHANGED aux

\* notes.get('/', zValidator('query', listNotesQuerySchema), ...)
RouteList(query) ==
    IF listNotesQuerySchema(query)
    THEN /\ getNotes(ArchivedOption(query.archived),
                     IF query.limit = 0 THEN ListDefaultLimit ELSE query.limit,
                     query.offset,
                     IF query.sortBy = "omitted" THEN "updated_at" ELSE query.sortBy,
                     IF query.sortOrder = "omitted" THEN "desc" ELSE query.sortOrder,
                     query)
         /\ UNCHANGED <<rev, clock, notes, fts, ftsTotal, nextId, created, deleted>>
    ELSE Rejected("list")

ApiList ==
    /\ \E query \in ListRequests : RouteList(query)
    /\ UNCHANGED aux

\* notes.get('/search', zValidator('query', searchQuerySchema), ...)
RouteSearch(query) ==
    IF searchQuerySchema(query)
    THEN /\ searchNotes(query.q,
                        IF query.limit = 0 THEN SearchDefaultLimit ELSE query.limit,
                        query.offset, query)
         /\ UNCHANGED <<rev, clock, notes, fts, ftsTotal, nextId, created, deleted>>
    ELSE Rejected("search")

ApiSearch ==
    /\ \E query \in SearchRequests : RouteSearch(query)
    /\ UNCHANGED aux

\* ---------------------------------------------- transactions on D1Binding
\* a call without a request body
NoData == [f \in {} |-> TRUE]

\* the Db calls a transaction function makes
TxnCalls ==
    { [op |-> "create", id |-> 0, data |-> [title |-> t, content |-> <<"b">>]] :
        t \in Titles }
    \cup { [op |-> "update", id |-> i, data |-> d] :
             i \in Ids, d \in { [title |-> <<"A", "b">>], [content |-> <<"b">>] } }
    \cup { [op |-> "delete", id |-> i, data |-> NoData] : i \in Ids }

\* the transaction functions: some Db calls, awaited one after the other,
\* after which the function returns the result of its last call or throws
TxnFns ==
    { [calls |-> s, throws |-> t] :
        s \in UNION { [1..k -> TxnCalls] : k \in 0..MaxTxnLen }, t \in BOOLEAN }

DbCall(c) ==
    CASE c.op = "create" -> createNote(c.data)
      [] c.op = "update" -> updateNote(c.id, c.data)
      [] c.op = "delete" -> deleteNote(c.id)

\* db.transaction(fn) is called: Db.transaction hands fn to the binding
TxnBegin ==
    /\ txn.phase = "idle"
    /\ \E fn \in TxnFns :
          txn' = [phase |-> "running", rest |-> fn.calls, throws |-> fn.throws,
                  wrote |-> FALSE, before |-> <<notes, fts, ftsTotal, nextId>>]
    /\ last' = NoResponse
    /\ UNCHANGED <<rev, clock, notes, fts, ftsTotal, nextId, created, deleted>>
    /\ UNCHANGED <<handle, call, schema, client>>

\* fn makes its next Db call; a call that fails (the store throws) ends fn
TxnStep ==
    /\ txn.phase = "running" /\ txn.rest # <<>>
    /\ DbCall(Head(txn.rest))
    /\ txn' = IF last'.status = 500
              THEN [txn EXCEPT !.rest = <<>>, !.throws = TRUE]
              ELSE [txn EXCEPT !.rest = Tail(@),
                               !.wrote = @ \/ <<notes, fts, ftsTotal>>' # <<notes, fts, ftsTotal>>]
    /\ UNCHANGED <<handle, call, schema, client>>

\* a transaction that undoes the writes of a function that fails
transaction_RollsBack(t) ==
    IF t.throws THEN t.before ELSE <<notes, fts, ftsTotal, nextId>>

\* D1Binding.transaction: "return await fn()"; the store after the call is
\* the store as fn left it
transaction(t) == <<notes, fts, ftsTotal, nextId>>

\* fn has returned or thrown: the transaction call settles the same way
TxnEnd ==
    /\ txn.phase = "running" /\ txn.rest = <<>>
    /\ notes' = transaction(txn)[1]
    /\ fts' = transaction(txn)[2]
    /\ ftsTotal' = transaction(txn)[3]
    /\ nextId' = transaction(txn)[4]
    /\ last' = IF txn.throws THEN Response("transaction", 0, 500, <<>>, <<>>, 0, <<>>)
               ELSE [last EXCEPT !.op = "transaction"]
    /\ txn' = [txn EXCEPT !.phase = "idle", !.before = <<>>]
    /\ UNCHANGED <<rev, clock, created, deleted>>
    /\ UNCHANGED <<handle, call, schema, client>>

\* -------------------------------------------------------------- pagination
\* limit and offset parameters around the number of notes; limit 0 stands for
\* a request without limit
PagedParams ==
    { [limit |-> 1, offset |-> o] : o \in 0..MaxNotes }
    \cup { [limit |-> MaxNotes, offset |-> 1], [limit |-> 0, offset |-> 0] }

PagedLists ==
    { [archived |-> a, limit |-> p.limit, offset |-> p.offset,
       sortBy |-> so.sortBy, sortOrder |-> so.sortOrder] :
        a \in {"omitted", "true"}, p \in PagedParams, so \in SortParams }

PagedSearches ==
    { [q |-> q, limit |-> p.limit, offset |-> p.offset] :
        q \in { <<"b">>, <<"a", " ", "b">> }, p \in PagedParams }

\* the writes that fill the store: creates, updates of title or content,
\* archiving and deletes
PageWrite ==
    /\ \E c \in TxnCalls \cup { [op |-> "update", id |-> i, data |-> [archived |-> TRUE]] :
                                  i \in Ids } : DbCall(c)
    /\ UNCHANGED aux

\* GET /api/notes?limit=..&offset=..
ListPage ==
    /\ \E query \in PagedLists : RouteList(query)
    /\ UNCHANGED aux

\* GET /api/notes/search?q=..&limit=..&offset=..
SearchPage ==
    /\ \E query \in PagedSearches : RouteSearch(query)
    /\ UNCHANGED aux

\* -------------------------------------------------------------- web client
\* a note in a response body, as the client holds it
WireNote(n) ==
    [id |-> n.id, title |-> n.title, content |-> n.content, archived |-> n.archived,
     createdAt |-> DateToJSON(n.createdAt), updatedAt |-> DateToJSON(n.updatedAt)]

WireData(data) == [k \in 1..Len(data) |-> WireNote(data[k])]

\* s without its k-th element
Remove(s, k) == [i \in 1..(Len(s) - 1) |-> IF i < k THEN s[i] ELSE s[i + 1]]

\* prev.filter(n => n.id !== id)
WithoutNote(list, id) == LET Keep(n) == n.id # id IN SelectSeq(list, Keep)

\* result.filter(n => !!n.archived === isArchivedView)
FilterView(list, view) ==
    LET Keep(n) == n.archived = (view = "archived") IN SelectSeq(list, Keep)

DisplayedIds(c) == { c.notes[k].id : k \in 1..Len(c.notes) }

\* selectedNote: notes.find(n => n.id === noteId) || null
selectedNote(c) ==
    LET Is(n) == n.id = c.noteId IN SelectSeq(c.notes, Is)

ListUrl(view) == IF view = "archived" THEN "/?view=archived" ELSE "/"

\* fetchNotes of the render with state c: the request is sent and the server
\* answers it; the response is in flight, with the debouncedSearch and
\* isArchivedView the callback was created with
fetchNotes(c) ==
    /\ Len(c.fetches) < MaxInFlight
    /\ IF c.debounced # <<>>
       THEN RouteSearch([q |-> c.debounced, limit |-> 0, offset |-> 0])
       ELSE RouteList([archived |-> IF c.view = "archived" THEN "true" ELSE "false",
                       limit |-> 0, offset |-> 0,
                       sortBy |-> "updatedAt", sortOrder |-> "desc"])
    /\ client' = [c EXCEPT !.isLoading = TRUE,
                           !.fetches = Append(@, [ok |-> last'.status = 200,
                                                  data |-> WireData(last'.data),
                                                  query |-> c.debounced,
                                                  view |-> c.view])]

\* the page is opened: HomeContent mounts and its effect fetches
Open ==
    /\ ~client.open
    /\ \E view \in Views : fetchNotes(Mounted(view))
    /\ UNCHANGED <<txn, handle, call, schema>>

\* the response of a fetch arrives: setNotes(result), or the catch
FetchDone ==
    /\ client.open
    /\ \E k \in 1..Len(client.fetches) :
          LET f == client.fetches[k]
              result == IF f.query # <<>> THEN FilterView(f.data, f.view) ELSE f.data
          IN client' = [client EXCEPT
                           !.fetches = Remove(@, k),
                           !.isLoading = FALSE,
                           !.notes = IF f.ok THEN result ELSE @,
                           !.fetchFailed = @ \/ ~f.ok]
    /\ UNCHANGED <<rev, clock, notes, fts, ftsTotal, nextId, last, created, deleted>>
    /\ UNCHANGED <<txn, handle, call, schema>>

\* the user types in the search bar: onSearchChange={setSearchQuery}
SetSearch ==
    /\ client.open
    /\ \E q \in Queries \cup {<<>>} :
          /\ q # client.searchQuery
          /\ client' = [client EXCEPT !.searchQuery = q]
    /\ UNCHANGED <<rev, clock, notes, fts, ftsTotal, nextId, last, created, deleted>>
    /\ UNCHANGED <<txn, handle, call, schema>>

\* useDebounce(searchQuery, 300): debouncedSearch takes the value of
\* searchQuery; fetchNotes is a new callback and the effect runs it
SearchSettles ==
    /\ client.open
    /\ client.debounced # client.searchQuery
    /\ fetchNotes([client EXCEPT !.debounced = client.searchQuery])
    /\ UNCHANGED <<txn, handle, call, schema>>

\* toggleArchivedView: router.push of the other view's list URL; the effect
\* fetches
toggleArchivedView ==
    /\ client.open
    /\ LET view == IF client.view = "archived" THEN "active" ELSE "archived"
       IN fetchNotes([client EXCEPT !.view = view, !.noteId = 0,
                                    !.pushed = ListUrl(view)])
    /\ UNCHANGED <<txn, handle, call, schema>>

\* the user selects a note of the sidebar
Select ==
    /\ client.open
    /\ \E id \in DisplayedIds(client) :
          /\ id # client.noteId
          /\ client' = [client EXCEPT !.noteId = id]
    /\ UNCHANGED <<rev, clock, notes, fts, ftsTotal, nextId, last, created, deleted>>
    /\ UNCHANGED <<txn, handle, call, schema>>

\* NoteEditor.handleTitleChange / handleContentChange -> handleNoteChange:
\* the displayed note is updated, the pending timer is cleared and a timer
\* for this field and value is set
handleNoteChange(id, field, value) ==
    client' = [client EXCEPT
                  !.notes = [k \in 1..Len(@) |->
                               IF @[k].id = id
                               THEN [@[k] EXCEPT ![field] = value,
                                                 !.updatedAt = <<"iso", DateNow>>]
                               ELSE @[k]],
                  !.timer = <<[id |-> id, field |-> field, value |-> value]>>,
                  !.typed = [@ EXCEPT ![id] = [@ EXCEPT ![field] = <<value>>]]]

Type ==
    /\ client.open
    /\ selectedNote(client) # <<>>
    /\ \/ \E value \in Titles : handleNoteChange(client.noteId, "title", value)
       \/ \E value \in Contents : handleNoteChange(client.noteId, "content", value)
    /\ UNCHANGED <<rev, clock, notes, fts, ftsTotal, nextId, last, created, deleted>>
    /\ UNCHANGED <<txn, handle, call, schema>>

\* the body of the auto-save request: { [field]: value }
SaveBody(t) == IF t.field = "title" THEN [title |-> t.value] ELSE [content |-> t.value]

\* the timer fires (1000 ms after the last change): updateNoteApi sets
\* isSaving and sends the PUT, which the server answers
TimerFires ==
    /\ client.open
    /\ client.timer # <<>>
    /\ Len(client.puts) < MaxInFlight
    /\ LET t == client.timer[1]
       IN /\ RoutePut(t.id, SaveBody(t))
          /\ client' = [client EXCEPT !.timer = <<>>,
                                      !.isSaving = TRUE,
                                      !.puts = Append(@, [ok |-> last'.status = 200])]
    /\ UNCHANGED <<txn, handle, call, schema>>

\* the response of an auto-save PUT arrives: catch and finally of
\* updateNoteApi
PutDone ==
    /\ client.open
    /\ \E k \in 1..Len(client.puts) :
          client' = [client EXCEPT !.puts = Remove(@, k),
                                   !.isSaving = FALSE,
                                   !.saveFailed = @ \/ ~client.puts[k].ok]
    /\ UNCHANGED <<rev, clock, notes, fts, ftsTotal, nextId, last, created, deleted>>
    /\ UNCHANGED <<txn, handle, call, schema>>

\* handleDeleteNote / handleArchiveNote up to the await, called from the
\* buttons of the editor of the selected note: the request is sent and the
\* server answers it; the handler holds the noteId and isArchivedView of its
\* render
ActRequest ==
    /\ client.open
    /\ selectedNote(client) # <<>>
    /\ Len(client.acts) < MaxInFlight
    /\ LET note == selectedNote(client)[1]
       IN \E kind \in {"delete", "archive"} :
             /\ IF kind = "delete" THEN RouteDelete(note.id)
                ELSE RoutePut(note.id, [archived |-> ~note.archived])
             /\ client' = [client EXCEPT
                              !.acts = Append(@, [kind |-> kind, id |-> note.id,
                                                  noteId |-> client.noteId,
                                                  view |-> client.view,
                                                  ok |-> last'.status \in {200, 204}])]
    /\ UNCHANGED <<txn, handle, call, schema>>

\* the displayed list after the answer a of a delete or archive request
AfterAct_KeepsNote(list, a) == list

AfterAct(list, a) == IF a.ok THEN WithoutNote(list, a.id) ELSE list

\* the response arrives: the rest of handleDeleteNote / handleArchiveNote. A
\* router.push that changes the view makes the effect fetch
ActDone ==
    /\ client.open
    /\ \E k \in 1..Len(client.acts) :
          LET a == client.acts[k]
              c == [client EXCEPT !.acts = Remove(@, k), !.done = a,
                                  !.notes = AfterAct(@, a)]
              d == IF a.ok /\ a.noteId = a.id
                   THEN [c EXCEPT !.view = a.view, !.noteId = 0,
                                  !.pushed = ListUrl(a.view)]
                   ELSE c
          IN IF d.view # client.view
             THEN fetchNotes(d)
             ELSE /\ client' = d
                  /\ UNCHANGED <<rev, clock, notes, fts, ftsTotal, nextId, last,
                                 created, deleted>>
    /\ UNCHANGED <<txn, handle, call, schema>>

\* notes created and archived through the API before the page is opened
SeedCalls ==
    { c \in TxnCalls : c.op = "create" }
    \cup { [op |-> "update", id |-> i, data |-> [archived |-> TRUE]] : i \in Ids }

Seed ==
    /\ ~client.open
    /\ \E c \in SeedCalls : DbCall(c)
    /\ UNCHANGED aux

\* --------------------------------- transactions on BetterSqlite3Binding
\* BetterSqlite3Binding.transaction: "this.db.transaction(fn)()". The driver
\* runs BEGIN, calls fn, and runs COMMIT when fn returns, ROLLBACK when fn
\* throws. Every Db method is async: the statement it issues before its first
\* await runs when the method is called, the rest of the method later. A
\* function that awaits its Db calls hands the driver a promise at its first
\* await; a driver build either commits then, or refuses the promise with a
\* TypeError and rolls back. Whatever fn does after that await runs when the
\* transaction is over, each statement committed by itself.
SqliteCalls == { c \in TxnCalls : c.op \in {"create", "delete"} }

\* the functions: Db calls that are awaited one after the other ("async") or
\* made without await ("sync"), after which the function returns or throws
SqliteFns ==
    { [calls |-> s, throws |-> t, kind |-> k] :
        s \in UNION { [1..n -> SqliteCalls] : n \in 0..MaxTxnLen },
        t \in BOOLEAN, k \in {"sync", "async"} }

\* what the driver does with a promise returned by fn
Builds == {"commits", "rejects"}

Snapshot == [notes |-> notes, fts |-> fts, ftsTotal |-> ftsTotal,
             created |-> created, deleted |-> deleted]

\* db.transaction(fn) over BetterSqlite3Binding: BEGIN
SqliteBegin ==
    /\ txn.phase = "idle"
    /\ \E fn \in SqliteFns, build \in Builds :
          txn' = [phase |-> "inside", rest |-> fn.calls, throws |-> fn.throws,
                  wrote |-> FALSE, before |-> Snapshot, kind |-> fn.kind,
                  build |-> build, awaiting |-> FALSE, outside |-> FALSE]
    /\ last' = NoResponse
    /\ UNCHANGED <<rev, clock, notes, fts, ftsTotal, nextId, created, deleted>>
    /\ UNCHANGED <<handle, call, schema, client>>

\* fn makes a Db call while the driver is inside fn: the statement runs in
\* the transaction. A function that awaits the call is suspended after it
SqliteCall ==
    /\ txn.phase = "inside" /\ txn.rest # <<>> /\ ~txn.awaiting
    /\ DbCall(Head(txn.rest))
    /\ txn' = IF last'.status = 500
              THEN [txn EXCEPT !.rest = <<>>, !.throws = TRUE]
              ELSE [txn EXCEPT !.rest = Tail(@), !.awaiting = (txn.kind = "async"),
                               !.wrote = @ \/ <<notes, fts, ftsTotal>>' # <<notes, fts, ftsTotal>>]
    /\ UNCHANGED <<handle, call, schema, client>>

\* the store when the driver gets control back from fn, given what it saw:
\* "throw" (ROLLBACK), "return" (COMMIT), or a promise
Settled(t, saw) ==
    IF saw = "throw" \/ (saw = "promise" /\ t.build = "rejects") THEN t.before ELSE Snapshot

\* fn returns to the driver: a function without await returns or throws, a
\* function with await (or declared async) returns a promise
SqliteReturn ==
    /\ txn.phase = "inside"
    /\ txn.rest = <<>> \/ txn.awaiting
    /\ LET saw == IF txn.kind = "async" THEN "promise"
                  ELSE IF txn.throws THEN "throw" ELSE "return"
           after == Settled(txn, saw)
       IN /\ notes' = after.notes
          /\ fts' = after.fts
          /\ ftsTotal' = after.ftsTotal
          /\ created' = after.created
          /\ deleted' = after.deleted
          /\ IF saw = "promise"
             THEN /\ txn' = [txn EXCEPT !.phase = "after"]
                  /\ last' = last
             ELSE /\ txn' = [txn EXCEPT !.phase = "idle"]
                  /\ last' = IF saw = "throw"
                             THEN Response("transaction", 0, 500, <<>>, <<>>, 0, <<>>)
                             ELSE [last EXCEPT !.op = "transaction"]
    /\ UNCHANGED <<rev, clock, nextId>>
    /\ UNCHANGED <<handle, call, schema, client>>

\* fn goes on after its await: the transaction is over, the statement is
\* committed by itself
SqliteResume ==
    /\ txn.phase = "after" /\ txn.rest # <<>>
    /\ DbCall(Head(txn.rest))
    /\ txn' = IF last'.status = 500
              THEN [txn EXCEPT !.rest = <<>>, !.throws = TRUE]
              ELSE [txn EXCEPT !.rest = Tail(@),
                               !.outside = @ \/ <<notes, fts, ftsTotal>>' # <<notes, fts, ftsTotal>>]
    /\ UNCHANGED <<handle, call, schema, client>>

\* the promise of fn settles; db.transaction has failed when the driver
\* refused the promise or fn threw
SqliteSettle ==
    /\ txn.phase = "after" /\ txn.rest = <<>>
    /\ txn' = [txn EXCEPT !.phase = "idle"]
    /\ last' = IF txn.build = "rejects" \/ txn.throws
               THEN Response("transaction", 0, 500, <<>>, <<>>, 0, <<>>)
               ELSE [last EXCEPT !.op = "transaction"]
    /\ UNCHANGED <<rev, clock, notes, fts, ftsTotal, nextId, created, deleted>>
    /\ UNCHANGED <<handle, call, schema, client>>

\* ------------------------------------------------------------------ schema
\* a database on which initSchema has not run yet
InitEmpty ==
    /\ rev \in {"datenow", "returning"}
    /\ clock = 0
    /\ notes = << >>
    /\ fts = [r \in RowIds |-> {}]
    /\ ftsTotal = [title |-> 0, content |-> 0]
    /\ nextId = 1
    /\ last = NoResponse
    /\ created = << >>
    /\ deleted = {}
    /\ txn = NoTransaction
    /\ handle = NoEntryPoint
    /\ call = NoCall
    /\ schema = {}
    /\ client = NoClient

\* a schema script that drops what exists and creates it anew
initSchema_Recreates(t) ==
    [schema |-> SchemaObjects, notes |-> << >>, fts |-> [r \in RowIds |-> {}],
     ftsTotal |-> [title |-> 0, content |-> 0]]

\* Db.initSchema: every statement of the script is "create ... if not
\* exists"; a table that is created is empty, one that exists is left alone
initSchema(t) ==
    [schema |-> t.schema \cup SchemaObjects,
     notes |-> IF "notes" \in t.schema THEN t.notes ELSE << >>,
     fts |-> IF "notes_fts" \in t.schema THEN t.fts ELSE [r \in RowIds |-> {}],
     ftsTotal |-> IF "notes_fts" \in t.schema THEN t.ftsTotal
                  ELSE [title |-> 0, content |-> 0]]

\* await db.initSchema(): when the server starts, in the worker before each
\* request
InitSchema ==
    LET t == initSchema([schema |-> schema, notes |-> notes, fts |-> fts,
                         ftsTotal |-> ftsTotal])
    IN /\ schema' = t.schema
       /\ notes' = t.notes
       /\ fts' = t.fts
       /\ ftsTotal' = t.ftsTotal
       /\ last' = [NoResponse EXCEPT !.op = "initSchema"]
       /\ UNCHANGED <<rev, clock, nextId, created, deleted, txn, handle, call, client>>

\* a write on the initialised database
SchemaWrite ==
    /\ schema = SchemaObjects
    /\ \E c \in TxnCalls : DbCall(c)
    /\ UNCHANGED aux

\* a write before initSchema has run: "no such table: notes"
NoTable ==
    /\ "notes" \notin schema
    /\ \E c \in TxnCalls : last' = Response(c.op, c.id, 500, <<>>, <<>>, 0, <<>>)
    /\ UNCHANGED <<rev, clock, notes, fts, ftsTotal, nextId, created, deleted>>
    /\ UNCHANGED aux

\* ----------------------------------------------------------------- sorting
\* GET /api/notes with each allowed sortBy and sortOrder, or without them
SortedLists ==
    { [archived |-> "omitted", limit |-> 0, offset |-> 0, sortBy |-> sb, sortOrder |-> so] :
        sb \in {"omitted", "createdAt", "updatedAt", "title"},
        so \in {"omitted", "asc", "desc"} }

ListSorted ==
    /\ \E query \in SortedLists : RouteList(query)
    /\ UNCHANGED aux

\* ------------------------------------- Db calls on D1, statement by statement
\* Each "await this.binding..." of a Db method on D1Binding is a round trip
\* to the database; between two of them other requests run. call is the one
\* Db call that is followed statement by statement; another request makes
\* a whole Db write in between.
CallUpdates == { [title |-> x] : x \in Titles } \cup { [archived |-> TRUE] }
CallLists == { q \in ListRequests : listNotesQuerySchema(q) }
CallSearches == { q \in SearchRequests : searchQuerySchema(q) /\ ~FtsSyntaxError(q.q) }

\* getNotes, first statement: select * from notes where archived = ?
\* order by ... limit ? offset ?
ListRows(query) ==
    LET archivedVal == IF ArchivedOption(query.archived) THEN 1 ELSE 0
        hits == { i \in DOMAIN notes : notes[i].archived = archivedVal }
        limit == IF query.limit = 0 THEN ListDefaultLimit ELSE query.limit
        sortBy == IF query.sortBy = "omitted" THEN "updated_at" ELSE query.sortBy
        sortOrder == IF query.sortOrder = "omitted" THEN "desc" ELSE query.sortOrder
    IN { [k \in 1..Len(Page(s, limit, query.offset)) |->
             mapRowToNote(notes[Page(s, limit, query.offset)[k]])] :
           s \in Ordered(hits, DbSortBy(sortBy), sortOrder) }

\* getNotes, second statement: select count(*) from notes where archived = ?
ListCount(query) ==
    Cardinality({ i \in DOMAIN notes :
                    notes[i].archived = IF ArchivedOption(query.archived) THEN 1 ELSE 0 })

\* searchNotes, first statement
SearchRows(query) ==
    LET hits == { i \in DOMAIN notes :
                    FtsMatch(fts, notes[i].rowid, query.q) /\ notes[i].archived = 0 }
        limit == IF query.limit = 0 THEN SearchDefaultLimit ELSE query.limit
    IN { [k \in 1..Len(Page(s, limit, query.offset)) |->
             mapRowToNote(notes[Page(s, limit, query.offset)[k]])] :
           s \in Arrangements(hits) }

\* searchNotes, second statement
SearchCount(query) ==
    Cardinality({ i \in DOMAIN notes :
                    FtsMatch(fts, notes[i].rowid, query.q) /\ notes[i].archived = 0 })

\* a createNote, updateNote or deleteNote of another request
OtherWrite ==
    /\ \E c \in TxnCalls : DbCall(c)
    /\ UNCHANGED aux

\* the first statement of a call
CallBegin ==
    /\ call.op = "none"
    /\ \/ \E id \in Ids, data \in CallUpdates :
             \* const existing = await this.getNoteById(id); if (!existing) return null
             IF getNoteById(id) = <<>>
             THEN /\ last' = Response("update", id, 404, <<>>, <<>>, 0, <<>>)
                  /\ call' = NoCall
             ELSE /\ last' = last
                  /\ call' = [op |-> "update", id |-> id, data |-> data, phase |-> "checked"]
       \/ \E query \in CallLists : \E rows \in ListRows(query) :
             /\ last' = last
             /\ call' = [op |-> "list", rows |-> rows, req |-> query]
       \/ \E query \in CallSearches : \E rows \in SearchRows(query) :
             /\ last' = last
             /\ call' = [op |-> "search", rows |-> rows, req |-> query]
    /\ UNCHANGED <<rev, clock, notes, fts, ftsTotal, nextId, created, deleted>>
    /\ UNCHANGED <<txn, handle, schema, client>>

\* the update statement of updateNote, and in the RETURNING revision its
\* answer ("returning *": the row, or nothing when no row has the id)
CallWrite ==
    /\ call.op = "update" /\ call.phase = "checked"
    /\ IF call.id \notin DOMAIN notes
       THEN /\ UNCHANGED <<notes, fts, created>>
            /\ IF rev = "datenow"
               THEN last' = last /\ call' = [call EXCEPT !.phase = "written"]
               ELSE /\ last' = Response("update", call.id, 404, <<>>, <<>>, 0, <<>>)
                    /\ call' = NoCall
       ELSE LET row == UpdatedRow(notes[call.id], call.data)
            IN IF FtsUpdateFails(ftsTotal, row)
               THEN /\ last' = Response("update", call.id, 500, <<>>, <<>>, 0, <<>>)
                    /\ call' = NoCall
                    /\ UNCHANGED <<notes, fts, created>>
               ELSE /\ notes' = [notes EXCEPT ![call.id] = row]
                    /\ fts' = FtsUpdate(fts, row)
                    /\ created' = [i \in DOMAIN created \ {call.id} |-> created[i]]
                    /\ IF rev = "datenow"
                       THEN last' = last /\ call' = [call EXCEPT !.phase = "written"]
                       ELSE /\ last' = Response("update", call.id, 200,
                                                <<mapRowToNote(row)>>, <<>>, 0, <<>>)
                            /\ call' = NoCall
    /\ UNCHANGED <<rev, clock, ftsTotal, nextId, deleted>>
    /\ UNCHANGED <<txn, handle, schema, client>>

\* the last statement of a call, and the response of its route
CallEnd ==
    /\ \/ /\ call.op = "update" /\ call.phase = "written"
          \* return this.getNoteById(id)
          /\ last' = Response("update", call.id,
                              IF getNoteById(call.id) = <<>> THEN 404 ELSE 200,
                              getNoteById(call.id), <<>>, 0, <<>>)
       \/ /\ call.op = "list"
          /\ last' = Response("list", 0, 200, <<>>, call.rows, ListCount(call.req), call.req)
       \/ /\ call.op = "search"
          /\ last' = Response("search", 0, 200, <<>>, call.rows, SearchCount(call.req),
                              call.req)
    /\ call' = NoCall
    /\ UNCHANGED <<rev, clock, notes, fts, ftsTotal, nextId, created, deleted>>
    /\ UNCHANGED <<txn, handle, schema, client>>

\* ------------------------------------------------------------ entry points
\* index.ts: when the module loads, one Db over BetterSqlite3Binding is opened
\* and its schema created; createApp(config, db) hands it to every request
StartNode ==
    /\ handle.entry = "none"
    /\ handle' = [handle EXCEPT !.entry = "node", !.open = 1]
    /\ UNCHANGED <<rev, clock, notes, fts, ftsTotal, nextId, last, created, deleted>>
    /\ UNCHANGED <<txn, call, schema, client>>

\* worker.ts: the module exports fetch; no handle exists before a request
StartWorker ==
    /\ handle.entry = "none"
    /\ handle' = [handle EXCEPT !.entry = "worker"]
    /\ UNCHANGED <<rev, clock, notes, fts, ftsTotal, nextId, last, created, deleted>>
    /\ UNCHANGED <<txn, call, schema, client>>

\* the handle a request runs against: fetch of worker.ts makes
\* "new Db(new D1Binding(env.DB))" for each request, the Node server's
\* requests all get the Db of the module
Acquire(h) == IF h.entry = "worker" THEN [h EXCEPT !.open = @ + 1] ELSE h

\* an entry point that closes the handle when the request has been answered
Release_Closes(h) == [h EXCEPT !.open = @ - 1, !.closes = @ + 1]

\* what the entry point does with the handle once app.fetch has answered:
\* nothing, neither Db.close nor binding.close is called
Release(h) == h

\* app.fetch: the request goes to its route
Request ==
    \/ \E body \in CreateBodies : RoutePost(body)
    \/ \E id \in RequestIds, body \in UpdateBodies : RoutePut(id, body)
    \/ \E id \in RequestIds : RouteDelete(id)
    \/ \E id \in RequestIds : RouteGet(id)
    \/ \E query \in ListRequests : RouteList(query)
    \/ \E query \in SearchRequests : RouteSearch(query)

\* one request, from its arrival to its response
Serve ==
    /\ handle.entry # "none"
    /\ handle.served < MaxRequests
    /\ Request
    /\ handle' = [Release(Acquire(handle)) EXCEPT
                     !.served = @ + 1,
                     !.usedClosed = @ \/ Acquire(handle).open = 0]
    /\ UNCHANGED <<txn, call, schema, client>>

\* ------------------------------------------------------------ the bindings
\* Db reaches the store through a DbBinding: D1Binding on the worker,
\* BetterSqlite3Binding on the Node server. Both engines run the same SQL on
\* the same tables; what differs is the shape in which each driver hands
\* back its results, and what the binding makes of it.
Bindings == {"d1", "better-sqlite3"}

BindingOf(entry) == IF entry = "worker" THEN "d1" ELSE "better-sqlite3"

\* JavaScript values: null, undefined, or a value
Null == [js |-> "null"]
Undefined == [js |-> "undefined"]
Value(v) == [js |-> "value", v |-> v]

\* a ?? b
Coalesce(a, b) == IF a.js \in {"null", "undefined"} THEN b ELSE a

\* a row or result object is truthy, null and undefined are not
Truthy(a) == a.js = "value"

\* D1PreparedStatement.first() gives the first row or null,
\* Statement.get() of better-sqlite3 the first row or undefined
DriverFirst(b, rows) ==
    IF rows # <<>> THEN Value(rows[1])
    ELSE IF b = "d1" THEN Null ELSE Undefined

\* D1Binding.get: "return result ?? undefined"; BetterSqlite3Binding.get
BindingGet(b, rows) ==
    IF b = "d1" THEN Coalesce(DriverFirst(b, rows), Undefined) ELSE DriverFirst(b, rows)

\* D1PreparedStatement.all() gives { results }, Statement.all() the array
DriverAll(b, rows) == IF b = "d1" THEN [results |-> Value(rows)] ELSE Value(rows)

\* D1Binding.all: "return results ?? []"; BetterSqlite3Binding.all
BindingAll(b, rows) ==
    IF b = "d1" THEN Coalesce(DriverAll(b, rows).results, Value(<<>>)).v
    ELSE DriverAll(b, rows).v

\* D1PreparedStatement.run() gives { meta: { changes } }, Statement.run()
\* gives { changes }
DriverRun(b, n) ==
    IF b = "d1" THEN [meta |-> [changes |-> Value(n)], changes |-> Undefined]
    ELSE [changes |-> Value(n)]

\* D1Binding.run reading result.changes, which the D1 result does not have
BindingRun_WrongField(b, n) ==
    IF b = "d1" THEN [changes |-> Coalesce(DriverRun(b, n).changes, Value(0)).v]
    ELSE [changes |-> DriverRun(b, n).changes.v]

\* D1Binding.run: "{ changes: result.meta.changes ?? 0 }";
\* BetterSqlite3Binding.run: "{ changes: result.changes }"
BindingRun(b, n) ==
    IF b = "d1" THEN [changes |-> Coalesce(DriverRun(b, n).meta.changes, Value(0)).v]
    ELSE [changes |-> DriverRun(b, n).changes.v]

\* "row ? this.mapRowToNote(row) : null", as a sequence of length 1 or 0
NoteOrNull(a) == IF Truthy(a) THEN <<mapRowToNote(a.v)>> ELSE <<>>

\* "totalResult?.count ?? 0"
CountOrZero(a) == IF Truthy(a) THEN a.v.count ELSE 0

\* the rows of "select * from notes where id = ?"
RowsById(id) == IF id \in DOMAIN notes THEN <<notes[id]>> ELSE <<>>

\* the Db calls made through a binding
BindingCalls ==
    TxnCalls
    \cup { [op |-> "get", id |-> i, data |-> NoData] : i \in Ids }
    \cup { [op |-> "list", id |-> 0, data |-> q] : q \in CallLists }
    \cup { [op |-> "search", id |-> 0, data |-> q] :
             q \in { r \in SearchRequests : searchQuerySchema(r) } }

\* Db.createNote over binding b
createNoteVia(b, data) ==
    /\ nextId <= MaxNotes
    /\ LET id == nextId
           row == NewRow(id, data)
           note == IF rev = "datenow" THEN mapRowToNote(row)
                   ELSE mapRowToNote(BindingGet(b, <<row>>).v)
       IN /\ notes' = [i \in DOMAIN notes \cup {id} |-> IF i = id THEN row ELSE notes[i]]
          /\ fts' = FtsInsert(fts, row)
          /\ ftsTotal' = FtsTotalInsert(ftsTotal, row)
          /\ nextId' = nextId + 1
          /\ last' = Response("create", id, 201, <<note>>, <<>>, 0, <<>>)
          /\ created' = [i \in DOMAIN created \cup {id} |->
                            IF i = id THEN [req |-> data, note |-> note] ELSE created[i]]
    /\ UNCHANGED <<rev, clock, deleted>>

\* Db.updateNote over binding b
updateNoteVia(b, id, data) ==
    IF NoteOrNull(BindingGet(b, RowsById(id))) = <<>>
    THEN /\ last' = Response("update", id, 404, <<>>, <<>>, 0, <<>>)
         /\ UNCHANGED <<rev, clock, notes, fts, ftsTotal, nextId, created, deleted>>
    ELSE LET row == UpdatedRow(notes[id], data)
             note == NoteOrNull(BindingGet(b, <<row>>))
         IN IF FtsUpdateFails(ftsTotal, row)
            THEN /\ last' = Response("update", id, 500, <<>>, <<>>, 0, <<>>)
                 /\ UNCHANGED <<rev, clock, notes, fts, ftsTotal, nextId, created, deleted>>
            ELSE /\ notes' = [notes EXCEPT ![id] = row]
                 /\ fts' = FtsUpdate(fts, row)
                 /\ last' = Response("update", id, IF note = <<>> THEN 404 ELSE 200,
                                     note, <<>>, 0, <<>>)
                 /\ created' = [i \in DOMAIN created \ {id} |-> created[i]]
                 /\ UNCHANGED <<rev, clock, ftsTotal, nextId, deleted>>

\* deleteNote whose statement has no "where id = ?"
deleteNoteVia_EveryRow(b, id) ==
    LET found == IF rev = "datenow"
                 THEN BindingRun(b, Cardinality(DOMAIN notes)).changes > 0
                 ELSE NoteOrNull(BindingGet(b, RowsById(id))) # <<>>
    IN /\ notes' = << >>
       /\ fts' = IF id \in DOMAIN notes THEN FtsDelete(fts, notes[id]) ELSE fts
       /\ last' = Response("delete", id, IF found THEN 204 ELSE 404, <<>>, <<>>, 0, <<>>)
       /\ created' = << >>
       /\ deleted' = IF found THEN deleted \cup {id} ELSE deleted
       /\ UNCHANGED <<rev, clock, ftsTotal, nextId>>

\* Db.deleteNote over binding b: "result.changes > 0", in the RETURNING
\* revision the row that "delete ... returning *" gives back
deleteNoteVia(b, id) ==
    LET found == IF rev = "datenow"
                 THEN BindingRun(b, Len(RowsById(id))).changes > 0
                 ELSE NoteOrNull(BindingGet(b, RowsById(id))) # <<>>
    IN /\ notes' = [i \in DOMAIN notes \ {id} |-> notes[i]]
       /\ fts' = IF id \in DOMAIN notes THEN FtsDelete(fts, notes[id]) ELSE fts
       /\ last' = Response("delete", id, IF found THEN 204 ELSE 404, <<>>, <<>>, 0, <<>>)
       /\ created' = [i \in DOMAIN created \ {id} |-> created[i]]
       /\ deleted' = IF found THEN deleted \cup {id} ELSE deleted
       /\ UNCHANGED <<rev, clock, ftsTotal, nextId>>

\* Db.getNoteById, Db.getNotes and Db.searchNotes over binding b
readVia(b, c) ==
    /\ CASE c.op = "get" ->
              LET note == NoteOrNull(BindingGet(b, RowsById(c.id)))
              IN last' = Response("get", c.id, IF note = <<>> THEN 404 ELSE 200,
                                  note, <<>>, 0, <<>>)
         [] c.op = "list" ->
              \E rows \in ListRows(c.data) :
                 last' = Response("list", 0, 200, <<>>, BindingAll(b, rows),
                                  CountOrZero(BindingGet(b, <<[count |-> ListCount(c.data)]>>)),
                                  c.data)
         [] c.op = "search" ->
              IF FtsSyntaxError(c.data.q)
              THEN last' = Response("search", 0, 500, <<>>, <<>>, 0, c.data)
              ELSE \E rows \in SearchRows(c.data) :
                      last' = Response("search", 0, 200, <<>>, BindingAll(b, rows),
                                       CountOrZero(BindingGet(b,
                                           <<[count |-> SearchCount(c.data)]>>)),
                                       c.data)
    /\ UNCHANGED <<rev, clock, notes, fts, ftsTotal, nextId, created, deleted>>

\* one Db call over binding b
ViaCall(b, c) ==
    CASE c.op = "create" -> createNoteVia(b, c.data)
      [] c.op = "update" -> updateNoteVia(b, c.id, c.data)
      [] c.op = "delete" -> deleteNoteVia(b, c.id)
      [] OTHER -> readVia(b, c)

\* a Db call on the binding of the entry point that is running
DbStep ==
    /\ handle.entry # "none"
    /\ \E c \in BindingCalls : ViaCall(BindingOf(handle.entry), c)
    /\ UNCHANGED aux

\* ---------------------------------------------------------- specifications
Writes == Create \/ Update \/ Delete

\* every operation, with the clock advancing
Next == Tick \/ Writes \/ Get \/ List \/ Search

Spec == Init /\ [][Next]_vars

\* create, update, delete and get by id, with the clock advancing
NextCrud == Tick \/ Writes \/ Get

SpecCrud == Init /\ [][NextCrud]_vars

\* the operations whose results do not depend on the time of day, at one
\* instant of the clock
NextList == Writes \/ List

SpecList == Init /\ [][NextList]_vars

NextSearch == Writes \/ Search

SpecSearch == Init /\ [][NextSearch]_vars

NextReads == Writes \/ Get \/ List \/ Search

SpecReads == Init /\ [][NextReads]_vars

\* transactions through Db over D1Binding
NextTxn == TxnBegin \/ TxnStep \/ TxnEnd

SpecTxn == Init /\ [][NextTxn]_vars

\* the editor of the web client: selecting, typing, auto-save
NextAutoSave == Seed \/ Open \/ FetchDone \/ Select \/ Type \/ TimerFires \/ PutDone

SpecAutoSave == Init /\ [][NextAutoSave]_vars

\* the list of the web client: search bar and view toggle
NextBrowse == Seed \/ Open \/ FetchDone \/ SetSearch \/ SearchSettles \/ toggleArchivedView

SpecBrowse == Init /\ [][NextBrowse]_vars

\* delete and archive in the web client
NextManage == Seed \/ Open \/ FetchDone \/ Select \/ ActRequest \/ ActDone

SpecManage == Init /\ [][NextManage]_vars

\* transactions through Db over BetterSqlite3Binding
NextSqliteTxn ==
    SqliteBegin \/ SqliteCall \/ SqliteReturn \/ SqliteResume \/ SqliteSettle

SpecSqliteTxn == Init /\ [][NextSqliteTxn]_vars

\* initSchema among writes, from a database without schema
NextSchema == InitSchema \/ SchemaWrite \/ NoTable

SpecSchema == InitEmpty /\ [][NextSchema]_vars

\* sorted lists of notes written at different times
NextSort == Tick \/ PageWrite \/ ListSorted

SpecSort == Init /\ [][NextSort]_vars

\* lists and searches page by page
NextPages == PageWrite \/ ListPage \/ SearchPage

SpecPages == Init /\ [][NextPages]_vars

\* one Db call on D1 followed statement by statement, among the writes of
\* other requests
NextCalls == OtherWrite \/ CallBegin \/ CallWrite \/ CallEnd

SpecCalls == Init /\ [][NextCalls]_vars

\* Db calls over the binding of either entry point
NextBindings == StartNode \/ StartWorker \/ DbStep

SpecBindings == Init /\ [][NextBindings]_vars

\* the two entry points serving requests
NextEntry == StartNode \/ StartWorker \/ Serve

SpecEntry == Init /\ [][NextEntry]_vars

\* the six routes, each behind its validators, at one instant of the clock
NextApi == ApiPost \/ ApiPut \/ ApiDelete \/ ApiGet \/ ApiList \/ ApiSearch

SpecApi == Init /\ [][NextApi]_vars

\* ------------------------------------------------------------------ claims
\* created: for each note that was created and neither updated nor deleted
\* since, the create request and the note createNote returned.
\* deleted: the ids whose DELETE was answered 204.

\* the ids of the notes in the data of the last list or search response
DataIds == { last.data[k].id : k \in 1..Len(last.data) }

\* C1: a GET of a note that was created and neither updated nor deleted since
\* returns the note createNote returned: the same id, the title and content of
\* the create request, archived = false, the same createdAt and updatedAt.
C1_RoundTrip ==
    (last.op = "get" /\ last.id \in DOMAIN created) =>
        /\ last.status = 200
        /\ last.note = <<created[last.id].note>>
        /\ last.note[1].id = last.id
        /\ last.note[1].title = created[last.id].req.title
        /\ last.note[1].content = created[last.id].req.content
        /\ last.note[1].archived = FALSE

C1_Witness ==
    /\ last.op = "get" /\ last.id \in DOMAIN created /\ last.status = 200
    /\ clock > 0

\* C2: an updateNote(id, data) on an existing note leaves the set of notes,
\* every other note, and of the addressed note the id, createdAt and every
\* field that data does not name as they were.
C2_UpdateFrame ==
    [][(last'.op = "update" /\ last'.id \in DOMAIN notes) =>
        \A data \in UpdateRequests :
            updateNote(last'.id, data) =>
                LET id == last'.id
                IN /\ DOMAIN notes' = DOMAIN notes
                   /\ \A j \in DOMAIN notes \ {id} : notes'[j] = notes[j]
                   /\ notes'[id].id = notes[id].id
                   /\ notes'[id].rowid = notes[id].rowid
                   /\ notes'[id].created_at = notes[id].created_at
                   /\ (~Has(data, "title") => notes'[id].title = notes[id].title)
                   /\ (~Has(data, "content") => notes'[id].content = notes[id].content)
                   /\ (~Has(data, "archived") =>
                          notes'[id].archived = notes[id].archived)]_vars

C2_Witness ==
    /\ last.op = "update" /\ last.status = 200
    /\ Cardinality(DOMAIN notes) = 2
    /\ \E j \in DOMAIN notes : j # last.id /\ notes[j].archived = 1
    /\ notes[last.id].archived = 0 /\ notes[last.id].content = <<"b">>

\* the step is a successful updateNote of the note with the given id
UpdateSucceeds(id) ==
    /\ last'.op = "update" /\ last'.id = id /\ last'.status = 200
    /\ id \in DOMAIN notes
    /\ \E data \in UpdateRequests : updateNote(id, data)

C4_UpdatedNotBeforeCreated ==
    \A id \in DOMAIN notes :
        LET n == mapRowToNote(notes[id])
        IN n.createdAt = n.updatedAt \/ DateLE(n.createdAt, n.updatedAt)

\* C5: once DELETE of an id was answered 204 the note is gone for good: it is
\* not in the store, GET of the id answers 404, no list or search returns it.
C5_DeletedStaysGone ==
    /\ \A id \in deleted : id \notin DOMAIN notes
    /\ (last.op = "get" /\ last.id \in deleted) => (last.status = 404 /\ last.note = <<>>)
    /\ last.op \in {"list", "search"} => DataIds \cap deleted = {}

\* a GET of a deleted id, after a later note took over the rowid of the deleted one
C5_Witness ==
    /\ last.op = "get" /\ last.id \in deleted /\ last.status = 404
    /\ \E j \in DOMAIN notes : j > last.id /\ notes[j].rowid = 1

\* C6: a list response holds, and counts in total, exactly the notes whose
\* archived flag is the requested one (false when the parameter is omitted).
C6_ListFiltersArchived ==
    last.op = "list" =>
        LET want == (last.req.archived = "true")
            hits == { i \in DOMAIN notes : (notes[i].archived = 1) = want }
        IN /\ \A k \in 1..Len(last.data) : last.data[k].archived = want
           /\ DataIds \subseteq hits
           /\ last.total = Cardinality(hits)
           /\ (last.req.limit = 0 => DataIds = hits)

C6_Witness ==
    /\ last.op = "list" /\ last.req.archived = "omitted" /\ last.req.limit = 0
    /\ Len(last.data) = 1 /\ last.total = 1
    /\ Cardinality(DOMAIN notes) = 2

\* C7: a search response holds, and counts in total, only notes that are not
\* archived, also when an archived note matches the query.
C7_SearchExcludesArchived ==
    (last.op = "search" /\ last.status = 200) =>
        /\ \A k \in 1..Len(last.data) : last.data[k].archived = FALSE
        /\ \A i \in DataIds : i \in DOMAIN notes /\ notes[i].archived = 0
        /\ last.total <= Cardinality({ i \in DOMAIN notes : notes[i].archived = 0 })
        /\ (last.req.limit = 0 => last.total = Len(last.data))

\* a search whose query is the title of an archived note
C7_Witness ==
    /\ last.op = "search" /\ last.status = 200
    /\ \E i \in DOMAIN notes :
          /\ notes[i].archived = 1
          /\ ContainsIgnoreCase(notes[i].title, last.req.q)
          /\ Tokens(last.req.q) \subseteq Tokens(notes[i].title)

\* the words of a text as they are written
Words(s) == { SubSeq(s, i, TokenEnd(s, i)) : i \in TokenStarts(s) }

\* every word of q is, ignoring letter case, a word of the title or the content
WholeWordMatch(row, q) ==
    \A w \in Words(q) :
        \E v \in Words(row.title) \cup Words(row.content) : ToLower(v) = ToLower(w)

RowOf(r) == { i \in DOMAIN notes : notes[i].rowid = r }

\* C9 as claimed: the index holds an entry for a row iff the row is a note
\* that exists and is not archived.
C9_IndexMirrorsActive ==
    \A r \in RowIds :
        fts[r] # {} <=> \E i \in RowOf(r) : notes[i].archived = 0

\* C9 amended: the index covers every existing note, archived or not: the
\* entry of the note's row holds every word of its current title and content.
C9_IndexCoversAll ==
    \A i \in DOMAIN notes :
        /\ fts[notes[i].rowid] # {}
        /\ Tokens(notes[i].title) \cup Tokens(notes[i].content) \subseteq fts[notes[i].rowid]

\* an archived note whose content was changed while it was archived
C9_Witness ==
    \E i \in DOMAIN notes :
        /\ notes[i].archived = 1
        /\ notes[i].content = <<"b">>
        /\ i \notin DOMAIN created
        /\ <<"b">> \in fts[notes[i].rowid]
        /\ last.op = "update" /\ last.id = i /\ last.status = 200

\* C10 as claimed: each index entry carries exactly the words of the current
\* title and content of its note, and no entry exists for a deleted note.
C10_IndexInSync ==
    \A r \in RowIds :
        IF RowOf(r) = {} THEN fts[r] = {}
        ELSE \A i \in RowOf(r) :
                fts[r] = Tokens(notes[i].title) \cup Tokens(notes[i].content)

\* C11: GET, PUT and DELETE of a well-formed id that belongs to no stored note
\* (the request being valid otherwise) answer 404 with the body
\* {error: 'NotFound', message, statusCode: 404} and leave the notes and the
\* full-text index as they were.
C11_NotFound ==
    [][(/\ last'.op \in {"get", "update", "delete"}
        /\ last'.id \in Ids
        /\ last'.id \notin DOMAIN notes) =>
            /\ last'.status = 404
            /\ last'.error = [error |-> "NotFound",
                              message |-> <<"Note with id '", last'.id, "' not found">>,
                              statusCode |-> 404]
            /\ last'.note = <<>>
            /\ UNCHANGED <<notes, fts, ftsTotal>>]_vars

\* a PUT of an id that was deleted before, while another note is stored
C11_Witness ==
    /\ last.op = "update" /\ last.status = 404 /\ last.id \in deleted
    /\ last.error.statusCode = 404
    /\ DOMAIN notes # {}

\* the request is answered 400 and nothing of the store changes
Refused == last'.status = 400 /\ UNCHANGED <<notes, fts, ftsTotal, nextId>>

\* the title is empty or longer than 255 characters
BadTitle(title) == Len(title) = 0 \/ Len(title) > 255

\* the requests that violate their schema
InvalidCreates ==
    { body \in CreateBodies :
        \/ "title" \notin DOMAIN body
        \/ "content" \notin DOMAIN body
        \/ BadTitle(body.title) }

InvalidUpdates ==
    { r \in RequestIds \X UpdateBodies :
        \/ r[1] = BadId
        \/ DOMAIN r[2] \cap {"title", "content", "archived"} = {}
        \/ ("title" \in DOMAIN r[2] /\ BadTitle(r[2].title)) }

InvalidSearches ==
    { query \in SearchRequests :
        \/ "q" \notin DOMAIN query
        \/ Len(query.q) = 0
        \/ query.limit < 0 \/ query.limit > 100 \/ query.offset < 0 }

InvalidLists ==
    { query \in ListRequests :
        query.limit < 0 \/ query.limit > 1000 \/ query.offset < 0 }

\* C12: a request that violates its schema is answered 400 and changes no
\* note, timestamp or index entry: a create without title or content or with
\* a title that is empty or too long; an update with none of the three fields
\* or with such a title; an id that is not a UUID; a search without q or with
\* an empty q; a limit or an offset outside its range.
C12_ValidationFailure ==
    [][/\ last'.op = "create" =>
            \A body \in InvalidCreates : RoutePost(body) => Refused
       /\ last'.op = "update" =>
            \A r \in InvalidUpdates : RoutePut(r[1], r[2]) => Refused
       /\ last'.op = "get" => (RouteGet(BadId) => Refused)
       /\ last'.op = "delete" => (RouteDelete(BadId) => Refused)
       /\ last'.op = "search" =>
            \A query \in InvalidSearches : RouteSearch(query) => Refused
       /\ last'.op = "list" =>
            \A query \in InvalidLists : RouteList(query) => Refused]_vars

\* a create with an empty title was refused while a note is stored
C12_Witness ==
    /\ last.op = "create" /\ last.status = 400
    /\ DOMAIN notes # {}

\* C13 as claimed: every response with an error status (400, 404, 500) has a
\* body with the fields error, message and statusCode, and statusCode is the
\* status of the response.
C13_ErrorShape ==
    last.status \in {400, 404, 500} =>
        /\ {"error", "message", "statusCode"} \subseteq DOMAIN last.error
        /\ last.error.statusCode = last.status

\* the row keeps its identity, title, content and creation time over the step
SameNote(id) ==
    /\ id \in DOMAIN notes'
    /\ notes'[id].id = notes[id].id
    /\ notes'[id].rowid = notes[id].rowid
    /\ notes'[id].title = notes[id].title
    /\ notes'[id].content = notes[id].content
    /\ mapRowToNote(notes'[id]).createdAt = mapRowToNote(notes[id]).createdAt

\* C14: archiving hides a note and does not delete it.  An update
\* {archived: true} of a stored note succeeds and keeps the note with its id,
\* title, content and createdAt, and keeps its index entry; GET of an archived
\* note returns it.  An update {archived: false} of an archived note succeeds,
\* keeps the same fields and the index entry and makes the note active; the
\* default listing returns every active note and a search returns every
\* active note whose index entry matches the query, so the note is listed
\* again and found again by the queries that matched it before archiving.
C14_SoftToggle ==
    [][/\ last'.op = "update" /\ last'.id \in DOMAIN notes =>
            LET id == last'.id
            IN /\ updateNote(id, [archived |-> TRUE]) =>
                    /\ last'.status = 200
                    /\ SameNote(id)
                    /\ notes'[id].archived = 1
                    /\ fts'[notes[id].rowid] = fts[notes[id].rowid]
                    /\ last'.note = <<mapRowToNote(notes'[id])>>
               /\ (notes[id].archived = 1 /\ updateNote(id, [archived |-> FALSE])) =>
                    /\ last'.status = 200
                    /\ SameNote(id)
                    /\ notes'[id].archived = 0
                    /\ fts'[notes[id].rowid] = fts[notes[id].rowid]
       /\ (last'.op = "get" /\ last'.id \in DOMAIN notes) =>
            /\ last'.status = 200
            /\ last'.note = <<mapRowToNote(notes[last'.id])>>
            /\ notes' = notes
       /\ (last'.op = "list" /\ last'.req.archived = "omitted" /\ last'.req.limit = 0) =>
            \A i \in DOMAIN notes :
                notes[i].archived = 0 => \E k \in 1..Len(last'.data) : last'.data[k].id = i
       /\ (last'.op = "search" /\ last'.status = 200 /\ last'.req.limit = 0) =>
            \A i \in DOMAIN notes :
                (notes[i].archived = 0 /\ Tokens(last'.req.q) \subseteq fts[notes[i].rowid])
                    => \E k \in 1..Len(last'.data) : last'.data[k].id = i]_vars

\* GET returns a note that is archived, with the title and content it had
C14_Witness ==
    /\ last.op = "get" /\ last.status = 200
    /\ last.note[1].archived = TRUE
    /\ last.note[1].title = <<"A", "b">> /\ last.note[1].content = <<"b">>
    /\ Cardinality(DOMAIN notes) = 2

\* C15: on D1 a transaction only runs fn.  When the call settles the store
\* is as fn's writes left it, also when fn failed after some writes (nothing
\* is rolled back: the store then differs from the store at the start); the
\* call returns what fn returned, and fails when fn failed.
C15_TransactionNoOp ==
    [][(txn.phase = "running" /\ txn'.phase = "idle") =>
          /\ <<notes, fts, ftsTotal, nextId>>' = <<notes, fts, ftsTotal, nextId>>
          /\ txn.wrote => <<notes, fts, ftsTotal, nextId>>' # txn.before
          /\ IF txn.throws
             THEN last'.op = "transaction" /\ last'.status = 500
             ELSE last' = [last EXCEPT !.op = "transaction"]]_vars

\* a transaction whose function created a note and then failed
C15_Witness ==
    /\ txn.phase = "idle" /\ txn.throws /\ txn.wrote
    /\ last.op = "transaction" /\ last.status = 500
    /\ DOMAIN notes # {} /\ nextId = 2

\* C16 as stated: every request that was served had its handle closed, and no
\* request ran against a closed handle
C16_ReleasedPerRequest ==
    /\ handle.closes = handle.served
    /\ ~handle.usedClosed

\* C16 amended: serving requests never closes a handle. The Node server has
\* the one handle it opened at startup, the worker has one open handle for
\* each request it served, and no request runs against a closed handle
C16_HandleStaysOpen ==
    /\ handle.closes = 0
    /\ ~handle.usedClosed
    /\ handle.entry = "node" => handle.open = 1
    /\ handle.entry = "worker" => handle.open = handle.served

C16_Witness ==
    /\ handle.entry = "node" /\ handle.served = 2 /\ handle.open = 1
    /\ last.op = "get" /\ last.status = 200

\* C17: a call takes effect as one indivisible step. While a call is between
\* two of its statements no other request changes the store, and so: a list
\* or search response holds as many notes as its total leaves for its page,
\* and an update answered 200 returns the note with the title it was given
C17_Indivisible ==
    [][/\ (call.op # "none" /\ call' = call) =>
             <<notes, fts, ftsTotal, nextId>>' = <<notes, fts, ftsTotal, nextId>>
       /\ (call.op \in {"list", "search"} /\ call'.op = "none") =>
             LET limit == IF call.req.limit # 0 THEN call.req.limit
                          ELSE IF call.op = "list" THEN ListDefaultLimit
                          ELSE SearchDefaultLimit
                 left == IF last'.total > call.req.offset
                         THEN last'.total - call.req.offset ELSE 0
             IN Len(last'.data) = Min(limit, left)
       /\ (call.op = "update" /\ call'.op = "none" /\ last'.status = 200
              /\ Has(call.data, "title")) =>
             last'.note[1].title = call.data.title]_vars

\* the response holds the notes at positions offset+1 .. offset+n of the
\* full result s, n being what limit allows of the rows from offset on
IsPageOf(data, s, limit, offset) ==
    /\ Len(data) = (IF Len(s) <= offset THEN 0
                    ELSE IF Len(s) - offset <= limit THEN Len(s) - offset ELSE limit)
    /\ \A k \in 1..Len(data) : data[k] = mapRowToNote(notes[s[offset + k]])

\* C18: a list or search response holds at most limit notes, those at
\* positions offset .. offset+limit-1 of the full ordered result, and its
\* total is the number of all notes with the requested archived flag (for
\* search: of all non-archived matches), whatever limit and offset are
C18_Pagination ==
    [][/\ (last'.op = "list" /\ last'.status = 200) =>
             LET req == last'.req
                 all == { i \in DOMAIN notes :
                            notes[i].archived = IF req.archived = "true" THEN 1 ELSE 0 }
                 limit == IF req.limit = 0 THEN ListDefaultLimit ELSE req.limit
             IN /\ last'.total = Cardinality(all)
                /\ Len(last'.data) <= limit
                /\ \E s \in Ordered(all,
                                    DbSortBy(IF req.sortBy = "omitted" THEN "updated_at"
                                             ELSE req.sortBy),
                                    IF req.sortOrder = "omitted" THEN "desc"
                                    ELSE req.sortOrder) :
                      IsPageOf(last'.data, s, limit, req.offset)
       /\ (last'.op = "search" /\ last'.status = 200) =>
             LET req == last'.req
                 all == { i \in DOMAIN notes :
                            FtsMatch(fts, notes[i].rowid, req.q) /\ notes[i].archived = 0 }
                 limit == IF req.limit = 0 THEN SearchDefaultLimit ELSE req.limit
             IN /\ last'.total = Cardinality(all)
                /\ Len(last'.data) <= limit
                /\ \E s \in Arrangements(all) :
                      IsPageOf(last'.data, s, limit, req.offset)]_vars

C18_Witness ==
    /\ last.op = "list" /\ last.status = 200
    /\ last.req.limit = 1 /\ last.req.offset = 1 /\ last.req.sortBy = "title"
    /\ last.total = 2 /\ Len(last.data) = 1
    /\ last.data[1].title = <<"a">>

\* C19: the two bindings are interchangeable. Whatever call Db makes over one
\* binding, with the result and the store it leaves, the same call over the
\* other binding gives the same result and leaves the same store
C19_BindingsAgree ==
    [][\A c \in BindingCalls : ViaCall("d1", c) <=> ViaCall("better-sqlite3", c)]_vars

C19_Witness ==
    /\ handle.entry = "worker"
    /\ last.op = "delete" /\ last.status = 204
    /\ DOMAIN notes # {} /\ deleted # {}

\* C20: POST /api/notes with a valid body answers 201 with a note that has
\* the title and content of the request, is not archived and has createdAt
\* equal to updatedAt; the store then holds the notes it held before and
\* exactly one more, the new note
C20_NewNote ==
    [][last'.op = "create" =>
         \A body \in { b \in CreateBodies : createNoteSchema(b) } :
            RoutePost(body) =>
               /\ last'.status = 201
               /\ Len(last'.note) = 1
               /\ last'.note[1].title = body.title
               /\ last'.note[1].content = body.content
               /\ last'.note[1].archived = FALSE
               /\ DateToJSON(last'.note[1].createdAt) = DateToJSON(last'.note[1].updatedAt)
               /\ Cardinality(DOMAIN notes') = Cardinality(DOMAIN notes) + 1
               /\ \A i \in DOMAIN notes : i \in DOMAIN notes' /\ notes'[i] = notes[i]
               /\ \E i \in DOMAIN notes' \ DOMAIN notes :
                     mapRowToNote(notes'[i]) = last'.note[1]]_vars

C20_Witness ==
    /\ last.op = "create" /\ last.status = 201 /\ last.id = 2
    /\ Cardinality(DOMAIN notes) = 2
    /\ last.note[1].content = << >> /\ last.note[1].archived = FALSE

\* C23: note identifiers are unique and stable. No two stored notes share an
\* id; the id createNote returns belongs to no stored note and to no note that
\* was deleted before; a note that stays in the store keeps its id
C23_IdsUniqueStable ==
    [][/\ \A i, j \in DOMAIN notes' : i # j => notes'[i].id # notes'[j].id
       /\ \A i \in DOMAIN notes' : notes'[i].id = i
       /\ (nextId' # nextId /\ last'.op = "create" /\ last'.status = 201) =>
             /\ last'.note[1].id \notin DOMAIN notes
             /\ last'.note[1].id \notin deleted
             /\ last'.note[1].id \in DOMAIN notes'
       /\ \A i \in DOMAIN notes \cap DOMAIN notes' :
             /\ notes'[i].id = notes[i].id
             /\ notes'[i].rowid = notes[i].rowid
             /\ notes'[i].created_at = notes[i].created_at]_vars

C23_Witness ==
    /\ last.op = "create" /\ last.status = 201 /\ last.id = 2
    /\ deleted = {1} /\ DOMAIN notes = {2}
    /\ notes[2].rowid = 1

\* date x is not after date y; two dates that both are no time count as equal
NotAfter(x, y) == DateLE(x, y) \/ (~x.valid /\ ~y.valid)

\* note a may stand before note b in a list sorted by sortBy in direction dir
MayPrecede(a, b, sortBy, dir) ==
    LET le(x, y) == CASE sortBy = "title" -> ~TextLT(y.title, x.title)
                      [] sortBy = "createdAt" -> NotAfter(x.createdAt, y.createdAt)
                      [] sortBy = "updatedAt" -> NotAfter(x.updatedAt, y.updatedAt)
    IN IF dir = "asc" THEN le(a, b) ELSE le(b, a)

\* C24: the notes of a list response are ordered by the field sortBy names, in
\* the direction sortOrder; without them by updatedAt descending, the most
\* recently updated note first
C24_ListOrdering ==
    (last.op = "list" /\ last.status = 200) =>
        \A k, l \in 1..Len(last.data) : k < l =>
            MayPrecede(last.data[k], last.data[l],
                       IF last.req.sortBy = "omitted" THEN "updatedAt" ELSE last.req.sortBy,
                       IF last.req.sortOrder = "omitted" THEN "desc" ELSE last.req.sortOrder)

\* C25: deleteNote removes exactly the addressed note and reports whether it
\* existed. Deleting a stored id is answered 204, removes that note and leaves
\* every other note as it was; deleting an id that is not stored (never
\* created, or deleted before) is answered 404 and changes nothing
C25_DeleteFrame ==
    [][last'.op = "delete" =>
         LET id == last'.id
         IN IF id \in DOMAIN notes
            THEN /\ last'.status = 204
                 /\ DOMAIN notes' = DOMAIN notes \ {id}
                 /\ \A j \in DOMAIN notes \ {id} : notes'[j] = notes[j]
            ELSE /\ last'.status = 404
                 /\ <<notes, fts, ftsTotal, nextId>>' = <<notes, fts, ftsTotal, nextId>>]_vars

C25_Witness ==
    /\ last.op = "delete" /\ last.status = 404 /\ last.id = 1
    /\ deleted = {1} /\ DOMAIN notes = {2}
    /\ handle.entry = "worker" /\ rev = "datenow"

\* C26: initSchema is idempotent. Run on a database that has its schema it
\* leaves the schema, every note and every index entry as they were; run on
\* one without schema it creates all schema objects, with empty tables
C26_InitSchemaIdempotent ==
    [][last'.op = "initSchema" =>
         /\ schema' = SchemaObjects
         /\ schema = SchemaObjects =>
               <<notes, fts, ftsTotal, nextId>>' = <<notes, fts, ftsTotal, nextId>>
         /\ schema = {} =>
               /\ notes' = << >>
               /\ \A r \in RowIds : fts'[r] = {}]_vars

C26_Witness ==
    /\ last.op = "initSchema" /\ schema = SchemaObjects
    /\ Cardinality(DOMAIN notes) = 2
    /\ \E r \in RowIds : fts[r] # {}

\* C27: on better-sqlite3 a transaction is atomic. When db.transaction fails,
\* none of the writes of its function is in the store; when it completes, no
\* write of the function was committed apart from the others; for functions
\* with and without await
C27_SqliteAtomic ==
    [][(txn.phase # "idle" /\ txn'.phase = "idle") =>
          /\ last'.status = 500 =>
                /\ notes' = txn.before.notes
                /\ fts' = txn.before.fts
                /\ ftsTotal' = txn.before.ftsTotal
          /\ last'.status # 500 => ~txn.outside]_vars

\* C21: auto-save persists every edit. When no timer is pending, every
\* auto-save request has been answered and none has failed, the server's
\* title and content of each note the user edited are the values last typed
C21_AutoSavePersists ==
    (client.open /\ client.timer = <<>> /\ client.puts = <<>> /\ ~client.saveFailed) =>
        \A id \in Ids :
            /\ client.typed[id].title # <<>> =>
                  id \in DOMAIN notes /\ notes[id].title = client.typed[id].title[1]
            /\ client.typed[id].content # <<>> =>
                  id \in DOMAIN notes /\ notes[id].content = client.typed[id].content[1]

\* C29: isSaving is true exactly when an auto-save PUT is in flight
C29_SavingIndicator ==
    client.open => (client.isSaving <=> client.puts # <<>>)

\* the notes of a view whose index entry matches the query
MatchesInView(q, view) ==
    { i \in DOMAIN notes :
        /\ FtsMatch(fts, notes[i].rowid, q)
        /\ (notes[i].archived = 1) <=> (view = "archived") }

\* C22: with a non-empty search query the client shows exactly the notes of
\* the current view that match the query: whenever the result of a search
\* made for a view is set, the displayed notes are the matching notes of
\* that view
C22_SearchFiltersView ==
    [][(client.open /\ Len(client'.fetches) < Len(client.fetches)) =>
          \A k \in 1..Len(client.fetches) :
              LET f == client.fetches[k]
              IN (client'.fetches = Remove(client.fetches, k) /\ f.ok /\ f.query # <<>>) =>
                    DisplayedIds(client') = MatchesInView(f.query, f.view)]_vars

\* what fetchNotes shows for a query and a view
ResultFor(q, view) ==
    IF q = <<>>
    THEN { i \in DOMAIN notes : (notes[i].archived = 1) <=> (view = "archived") }
    ELSE { i \in DOMAIN notes :
             /\ FtsMatch(fts, notes[i].rowid, q) /\ notes[i].archived = 0
             /\ view = "active" }

\* C30: once every response has arrived (and no fetch has failed), the list
\* shown is the result for the current query and view
C30_LatestRequestShown ==
    (client.open /\ client.fetches = <<>> /\ ~client.fetchFailed) =>
        DisplayedIds(client) = ResultFor(client.debounced, client.view)

====
